---- MODULE Spec2Model ----
(***************************************************************************)
(* Skill capability resolution and activation engine of                    *)
(* src/src/agents/skills-install.ts: source merge (loadSkillEntries),      *)
(* eligibility (shouldIncludeSkill), environment activation               *)
(* (applySkillEnvOverrides and its snapshot variant) and the install       *)
(* dispatcher (installSkill).                                              *)
(* The last part models the bestbox tool (createBestBoxTool.execute): its   *)
(* domain validation, mold detection and the requests it sends.            *)
(*                                                                         *)
(* Encoding of JavaScript values:                                          *)
(*   - an optional value (T | undefined) is a sequence of length 0 or 1:   *)
(*     <<>> is undefined, <<v>> is the value v;                            *)
(*   - a string that is trimmed by the code is a sequence of tokens, the   *)
(*     token " " standing for whitespace; other strings are TLA+ strings;  *)
(*   - an object used as a map (frontmatter, SkillConfig.env, process.env) *)
(*     is a function from its keys.                                        *)
(***************************************************************************)
EXTENDS Integers, Sequences, FiniteSets, TLC

VARIABLES
    \* ---- source merge (loadSkillEntries) ----
    loaded,         \* loadSkillsFromDir: directory -> what the loader returns
    extraDirs,      \* config.skillsLoad.extraDirs
    bundledDir,     \* resolveBundledSkillsDir(): <<>> when none is found
    files,          \* filePath -> content fs.readFileSync returns (<<>>: it throws)
    skillEntries,   \* result of loadSkillEntries
    mpc,            \* "idle" | "done"
    \* ---- eligibility and activation ----
    entries,        \* SkillEntry list handed to the filter
    config,         \* ClawdisConfig: [skills: skillKey -> SkillConfig, tree: ...]
    env,            \* process.env: name -> <<>> (unset) | <<value>>
    bins,           \* PATH: per directory, the files in it with execute permission
    env0,           \* process.env before any activation (history)
    scopes,         \* activation scopes: id -> [status, updates, via, seen]
    eligible,       \* result of the last filterSkillEntries call
    snapshot,       \* result of the last buildWorkspaceSkillSnapshot call
    \* ---- install dispatcher (installSkill) ----
    request,        \* SkillInstallRequest
    installEntries, \* entries loadWorkspaceSkillEntries returns to installSkill
    ipc,            \* position of the installSkill call
    spec,           \* the spec findInstallSpec returned, <<>> when none
    specIndex,      \* its 0-based index in the install list, -1 when none
    command,        \* result of buildInstallCommand
    calls,          \* runCommandWithTimeout invocations so far
    brewResult,     \* result of the bootstrap sub-install, <<>> when not run
    runResult,      \* what the runner returned for the synthesized command, <<>> when not run
    result,         \* SkillInstallResult, <<>> while the call is running
    \* ---- bestbox tool (createBestBoxTool.execute) ----
    pluginConfig,   \* api.pluginConfig: <<>> when the plugin has no config
    params,         \* parameters of the execute call
    bpc,            \* position of the execute call
    effectiveDomain,\* the domain the call routes to, <<>> when none
    queryType,      \* classifyMoldQuery result, <<>> for null
    requests,       \* fetch calls made so far
    toolResult      \* what execute returned, <<>> while the call is running

mergeVars == <<loaded, extraDirs, bundledDir, files, skillEntries, mpc>>
envVars == <<entries, config, env, bins, env0, scopes, eligible, snapshot>>
installVars == <<request, installEntries, ipc, spec, specIndex, command, calls,
                 brewResult, runResult, result>>
bestboxVars == <<pluginConfig, params, bpc, effectiveDomain, queryType, requests,
                 toolResult>>
vars == <<mergeVars, envVars, installVars, bestboxVars>>

\* ------------------------------------------------------------------ values

\* T | undefined
Opt(S) == {<<>>} \cup {<<v>> : v \in S}
Some(v) == <<v>>
WS == " "

RECURSIVE TrimStart(_)
TrimStart(s) == IF s # <<>> /\ Head(s) = WS THEN TrimStart(Tail(s)) ELSE s

RECURSIVE TrimEnd(_)
TrimEnd(s) ==
    IF s # <<>> /\ s[Len(s)] = WS THEN TrimEnd(SubSeq(s, 1, Len(s) - 1)) ELSE s

\* String.prototype.trim on a token string
Trim(s) == TrimEnd(TrimStart(s))

SeqRange(s) == {s[i] : i \in DOMAIN s}

\* ------------------------------------------------------------------ metadata parser

\* A source line of a skill file: the "---" delimiter, a "key: value" line or
\* any other text. The value of a key line carries its characters (text) and
\* what JSON.parse makes of them (json).
DashLine == [t |-> "dash", key |-> "", value |-> [text |-> "", json |-> [t |-> "bad", clawdis |-> <<>>]]]
TextLine == [t |-> "text", key |-> "", value |-> [text |-> "", json |-> [t |-> "bad", clawdis |-> <<>>]]]
KvLine(k, v) == [t |-> "kv", key |-> k, value |-> v]
PlainValue(s) == [text |-> s, json |-> [t |-> "bad", clawdis |-> <<>>]]

\* frontmatter[key] = value, a later line of the same key replacing an earlier
FrontmatterSet(fm, k, v) ==
    [x \in (DOMAIN fm) \cup {k} |-> IF x = k THEN v ELSE fm[x]]

EmptyFrontmatter == [x \in {} |-> PlainValue("")]

RECURSIVE ParseBlock(_, _)
ParseBlock(block, fm) ==
    IF block = <<>> THEN fm
    ELSE LET line == Head(block)
         IN  IF line.t # "kv" \/ line.key = "" \/ line.value.text = ""
             THEN ParseBlock(Tail(block), fm)
             ELSE ParseBlock(Tail(block), FrontmatterSet(fm, line.key, line.value))

\* index of the first line after the first that begins with "---", 0 if none
ClosingLine(lines) ==
    LET cands == {i \in 2..Len(lines) : lines[i].t = "dash"}
    IN  IF cands = {} THEN 0 ELSE CHOOSE i \in cands : \A j \in cands : i <= j

parseFrontmatter(content) ==
    IF content = <<>> \/ content[1].t # "dash" THEN EmptyFrontmatter
    ELSE LET endIndex == ClosingLine(content)
         IN  IF endIndex = 0 THEN EmptyFrontmatter
             ELSE ParseBlock(SubSeq(content, 2, endIndex - 1), EmptyFrontmatter)

\* the entries of a list of strings, trimmed, the empty ones dropped
normalizeStringList(input) == SelectSeq(input, LAMBDA v : v # "")

InstallKinds == {"brew", "node", "go", "uv"}

\* A raw install entry of the metadata JSON carries kind, id, formula, package
\* and module already as optional strings (a value of another type reads as
\* absent); label and bins are not used by the dispatcher and are left out.
parseInstallSpec(raw) ==
    IF raw.kind \notin InstallKinds THEN <<>>
    ELSE Some([kind |-> raw.kind, id |-> raw.id, formula |-> raw.formula,
               package |-> raw.package, module |-> raw.module])

RECURSIVE ParseInstallList(_)
ParseInstallList(installRaw) ==
    IF installRaw = <<>> THEN <<>>
    ELSE parseInstallSpec(Head(installRaw)) \o ParseInstallList(Tail(installRaw))

MetadataKey == "metadata"

resolveClawdisMetadata(frontmatter) ==
    IF MetadataKey \notin DOMAIN frontmatter THEN <<>>
    ELSE LET parsed == frontmatter[MetadataKey].json
         IN  IF parsed.t # "object" THEN <<>>
             ELSE IF parsed.clawdis = <<>> THEN <<>>
             ELSE LET clawdisObj == parsed.clawdis[1]
                      install == ParseInstallList(clawdisObj.install)
                  IN  Some([always |-> clawdisObj.always,
                            skillKey |-> clawdisObj.skillKey,
                            primaryEnv |-> clawdisObj.primaryEnv,
                            requires |->
                                IF clawdisObj.requires = <<>> THEN <<>>
                                ELSE LET requiresRaw == clawdisObj.requires[1]
                                     IN  Some([bins |-> normalizeStringList(requiresRaw.bins),
                                               env |-> normalizeStringList(requiresRaw.env),
                                               config |-> normalizeStringList(requiresRaw.config)]),
                            install |-> IF Len(install) > 0 THEN Some(install)
                                        ELSE <<>>])

\* ------------------------------------------------------------------ configuration

\* A JavaScript value of the configuration tree: a record whose field ty is
\* one of "undefined", "null", "boolean", "number", "string", "array",
\* "object" and whose other fields carry the value of that type: b the
\* boolean, n the number, s the token string, items the list of the elements
\* of an array, obj the function from the own keys of an object to values.
JsValue(ty, b, n, s, items, obj) ==
    [ty |-> ty, b |-> b, n |-> n, s |-> s, items |-> items, obj |-> obj]
Undefined == JsValue("undefined", FALSE, 0, <<>>, <<>>, <<>>)
JsNull == JsValue("null", FALSE, 0, <<>>, <<>>, <<>>)
JsBool(b) == JsValue("boolean", b, 0, <<>>, <<>>, <<>>)
JsNumber(n) == JsValue("number", FALSE, n, <<>>, <<>>, <<>>)
JsString(s) == JsValue("string", FALSE, 0, s, <<>>, <<>>)
JsArray(items) == JsValue("array", FALSE, 0, <<>>, items, <<>>)
JsObject(f) == JsValue("object", FALSE, 0, <<>>, <<>>, f)

isTruthy(value) ==
    IF value.ty = "undefined" \/ value.ty = "null" THEN FALSE
    ELSE IF value.ty = "boolean" THEN value.b
    ELSE IF value.ty = "number" THEN value.n # 0
    ELSE IF value.ty = "string" THEN Len(Trim(value.s)) > 0
    ELSE TRUE

BrowserEnabledPath == <<"browser", "enabled">>

\* DEFAULT_CONFIG_VALUES, keyed by the path string (here its parts)
DEFAULT_CONFIG_VALUES == [p \in {BrowserEnabledPath} |-> TRUE]

\* config is <<>> (undefined) or <<[skills, tree]>>: skills is
\* config.skills (<<>> or <<function skillKey -> SkillConfig>>), tree the
\* object of the other top-level keys.
ConfigValue(cfg) == IF cfg = <<>> THEN Undefined ELSE JsObject(cfg[1].tree)

\* current[part]: typeof current is "object" for objects and for arrays, whose
\* properties are "length" and the indices "0", "1", ...
Property(current, part) ==
    IF current.ty = "object"
    THEN IF part \in DOMAIN current.obj THEN current.obj[part] ELSE Undefined
    ELSE IF part = "length" THEN JsNumber(Len(current.items))
    ELSE LET hits == {i \in DOMAIN current.items : ToString(i - 1) = part}
         IN  IF hits = {} THEN Undefined ELSE current.items[CHOOSE i \in hits : TRUE]

RECURSIVE WalkPath(_, _)
WalkPath(current, parts) ==
    IF parts = <<>> THEN current
    ELSE IF current.ty \notin {"object", "array"} THEN Undefined
    ELSE WalkPath(Property(current, Head(parts)), Tail(parts))

\* pathStr is the sequence pathStr.split(".") gives
resolveConfigPath(cfg, pathStr) ==
    WalkPath(ConfigValue(cfg), SelectSeq(pathStr, LAMBDA part : part # ""))

\* the default taken for a listed path whatever the configuration holds
isConfigPathTruthyDefaultWins(cfg, pathStr) ==
    LET value == resolveConfigPath(cfg, pathStr)
    IN  IF pathStr \in DOMAIN DEFAULT_CONFIG_VALUES
        THEN DEFAULT_CONFIG_VALUES[pathStr] = TRUE
        ELSE isTruthy(value)

isConfigPathTruthy(cfg, pathStr) ==
    LET value == resolveConfigPath(cfg, pathStr)
    IN  IF value.ty = "undefined" /\ pathStr \in DOMAIN DEFAULT_CONFIG_VALUES
        THEN DEFAULT_CONFIG_VALUES[pathStr] = TRUE
        ELSE isTruthy(value)

\* <<>> or <<SkillConfig>>; SkillConfig is [enabled, env, apiKey], enabled an
\* optional boolean, env an optional list of <<name, value>> pairs in
\* Object.entries order, apiKey an optional string
resolveSkillConfig(cfg, skillKey) ==
    IF cfg = <<>> THEN <<>>
    ELSE IF cfg[1].skills = <<>> THEN <<>>
    ELSE IF skillKey \notin DOMAIN cfg[1].skills[1] THEN <<>>
    ELSE Some(cfg[1].skills[1][skillKey])

\* a string is truthy when it is not empty
TruthyStr(o) == o # <<>> /\ o[1] # ""

\* skillConfig.env?.[envName]
EnvOverride(skillConfig, envName) ==
    IF skillConfig.env = <<>> THEN <<>>
    ELSE LET pairs == skillConfig.env[1]
             hits == {i \in DOMAIN pairs : pairs[i][1] = envName}
         IN  IF hits = {} THEN <<>> ELSE Some(pairs[CHOOSE i \in hits : TRUE][2])

\* a test of the PATH directories that forgets the file name
hasBinaryAnyFile(bin) == \E i \in DOMAIN bins : bins[i] # {}

hasBinary(bin) == \E i \in DOMAIN bins : bin \in bins[i]

\* ------------------------------------------------------------------ eligibility

resolveSkillKey(entry) ==
    IF entry.clawdis # <<>> /\ entry.clawdis[1].skillKey # <<>>
    THEN entry.clawdis[1].skillKey[1]
    ELSE entry.skill.name

PrimaryEnvOf(entry) ==
    IF entry.clawdis = <<>> THEN <<>> ELSE entry.clawdis[1].primaryEnv

\* entry.clawdis?.requires?.<list> ?? []
RequiredBins(entry) ==
    IF entry.clawdis = <<>> \/ entry.clawdis[1].requires = <<>> THEN <<>>
    ELSE entry.clawdis[1].requires[1].bins
RequiredEnv(entry) ==
    IF entry.clawdis = <<>> \/ entry.clawdis[1].requires = <<>> THEN <<>>
    ELSE entry.clawdis[1].requires[1].env
RequiredConfig(entry) ==
    IF entry.clawdis = <<>> \/ entry.clawdis[1].requires = <<>> THEN <<>>
    ELSE entry.clawdis[1].requires[1].config

BinsLoopFirstOnly(requiredBins) ==
    IF requiredBins = <<>> THEN TRUE ELSE hasBinary(Head(requiredBins))

RECURSIVE BinsLoop(_)
BinsLoop(requiredBins) ==
    IF requiredBins = <<>> THEN TRUE
    ELSE IF ~hasBinary(Head(requiredBins)) THEN FALSE
    ELSE BinsLoop(Tail(requiredBins))

EnvRequirementMetAnyPrimary(entry, skillConfig, envName, penv) ==
    \/ TruthyStr(penv[envName])
    \/ skillConfig # <<>> /\ TruthyStr(EnvOverride(skillConfig[1], envName))
    \/ skillConfig # <<>> /\ TruthyStr(skillConfig[1].apiKey)

\* one pass of the loop over requiredEnv: TRUE is "continue"
EnvRequirementMet(entry, skillConfig, envName, penv) ==
    IF TruthyStr(penv[envName]) THEN TRUE
    ELSE IF skillConfig # <<>> /\ TruthyStr(EnvOverride(skillConfig[1], envName)) THEN TRUE
    ELSE IF /\ skillConfig # <<>>
            /\ TruthyStr(skillConfig[1].apiKey)
            /\ PrimaryEnvOf(entry) = Some(envName) THEN TRUE
    ELSE FALSE

RECURSIVE EnvLoop(_, _, _, _)
EnvLoop(entry, skillConfig, requiredEnv, penv) ==
    IF requiredEnv = <<>> THEN TRUE
    ELSE IF ~EnvRequirementMet(entry, skillConfig, Head(requiredEnv), penv) THEN FALSE
    ELSE EnvLoop(entry, skillConfig, Tail(requiredEnv), penv)

RECURSIVE ConfigLoop(_, _)
ConfigLoop(cfg, requiredConfig) ==
    IF requiredConfig = <<>> THEN TRUE
    ELSE IF ~isConfigPathTruthy(cfg, Head(requiredConfig)) THEN FALSE
    ELSE ConfigLoop(cfg, Tail(requiredConfig))

shouldIncludeSkillAlwaysFirst(entry, cfg, penv) ==
    LET skillConfig == resolveSkillConfig(cfg, resolveSkillKey(entry))
    IN  IF entry.clawdis # <<>> /\ entry.clawdis[1].always = Some(TRUE) THEN TRUE
        ELSE IF skillConfig # <<>> /\ skillConfig[1].enabled = Some(FALSE) THEN FALSE
        ELSE /\ BinsLoop(RequiredBins(entry))
             /\ EnvLoop(entry, skillConfig, RequiredEnv(entry), penv)
             /\ ConfigLoop(cfg, RequiredConfig(entry))

shouldIncludeSkillNoAlways(entry, cfg, penv) ==
    LET skillConfig == resolveSkillConfig(cfg, resolveSkillKey(entry))
    IN  IF skillConfig # <<>> /\ skillConfig[1].enabled = Some(FALSE) THEN FALSE
        ELSE /\ BinsLoop(RequiredBins(entry))
             /\ EnvLoop(entry, skillConfig, RequiredEnv(entry), penv)
             /\ ConfigLoop(cfg, RequiredConfig(entry))

\* penv is process.env at the time of the call
shouldIncludeSkill(entry, cfg, penv) ==
    LET skillKey == resolveSkillKey(entry)
        skillConfig == resolveSkillConfig(cfg, skillKey)
    IN  IF skillConfig # <<>> /\ skillConfig[1].enabled = Some(FALSE) THEN FALSE
        ELSE IF entry.clawdis # <<>> /\ entry.clawdis[1].always = Some(TRUE) THEN TRUE
        ELSE IF ~BinsLoop(RequiredBins(entry)) THEN FALSE
        ELSE IF ~EnvLoop(entry, skillConfig, RequiredEnv(entry), penv) THEN FALSE
        ELSE IF ~ConfigLoop(cfg, RequiredConfig(entry)) THEN FALSE
        ELSE TRUE

filterSkillEntries(es, cfg, penv) ==
    SelectSeq(es, LAMBDA entry : shouldIncludeSkill(entry, cfg, penv))

\* ------------------------------------------------------------------ activation

\* The loops of applySkillEnvOverrides thread st = [env, updates]: the
\* process environment and the updates pushed so far.

\* an injection that reads the previous value after the assignment
InjectRecordsAfter(st, key, value) ==
    [env |-> [st.env EXCEPT ![key] = Some(value)],
     updates |-> Append(st.updates, [key |-> key, prev |-> Some(value)])]

\* updates.push({key, prev: process.env[key]}); process.env[key] = value
Inject(st, key, value) ==
    [env |-> [st.env EXCEPT ![key] = Some(value)],
     updates |-> Append(st.updates, [key |-> key, prev |-> st.env[key]])]

\* if (!envValue || process.env[envKey]) continue
SkipOverrideIgnoringEnv(st, envKey, envValue) == envValue = ""

SkipOverride(st, envKey, envValue) == envValue = "" \/ TruthyStr(st.env[envKey])

RECURSIVE OverridesLoop(_, _)
OverridesLoop(st, pairs) ==
    IF pairs = <<>> THEN st
    ELSE LET envKey == Head(pairs)[1]
             envValue == Head(pairs)[2]
         IN  IF SkipOverride(st, envKey, envValue) THEN OverridesLoop(st, Tail(pairs))
             ELSE OverridesLoop(Inject(st, envKey, envValue), Tail(pairs))

\* an activation that forgets the configured environment overrides
ActivateSkillApiKeyOnly(st, skillConfig, primaryEnv) ==
    IF skillConfig = <<>> THEN st
    ELSE IF /\ TruthyStr(primaryEnv)
            /\ TruthyStr(skillConfig[1].apiKey)
            /\ ~TruthyStr(st.env[primaryEnv[1]])
         THEN Inject(st, primaryEnv[1], skillConfig[1].apiKey[1])
         ELSE st

\* the body of both activation loops for one skill, given its configuration
\* and its primaryEnv
ActivateSkill(st, skillConfig, primaryEnv) ==
    IF skillConfig = <<>> THEN st
    ELSE LET st1 == IF skillConfig[1].env # <<>>
                    THEN OverridesLoop(st, skillConfig[1].env[1])
                    ELSE st
         IN  IF /\ TruthyStr(primaryEnv)
                /\ TruthyStr(skillConfig[1].apiKey)
                /\ ~TruthyStr(st1.env[primaryEnv[1]])
             THEN Inject(st1, primaryEnv[1], skillConfig[1].apiKey[1])
             ELSE st1

RECURSIVE EntriesLoop(_, _, _)
EntriesLoop(st, skills, cfg) ==
    IF skills = <<>> THEN st
    ELSE LET entry == Head(skills)
             skillConfig == resolveSkillConfig(cfg, resolveSkillKey(entry))
         IN  EntriesLoop(ActivateSkill(st, skillConfig, PrimaryEnvOf(entry)),
                         Tail(skills), cfg)

\* [env, updates] after the loop; the returned closure holds updates
applySkillEnvOverrides(skills, cfg, penv) ==
    EntriesLoop([env |-> penv, updates |-> <<>>], skills, cfg)

RECURSIVE SnapshotLoop(_, _, _)
SnapshotLoop(st, skills, cfg) ==
    IF skills = <<>> THEN st
    ELSE LET skill == Head(skills)
             skillConfig == resolveSkillConfig(cfg, skill.name)
         IN  SnapshotLoop(ActivateSkill(st, skillConfig, skill.primaryEnv),
                          Tail(skills), cfg)

\* snap is <<>> (no snapshot: nothing is done) or <<SkillSnapshot>>
applySkillEnvOverridesFromSnapshot(snap, cfg, penv) ==
    IF snap = <<>> THEN [env |-> penv, updates |-> <<>>]
    ELSE SnapshotLoop([env |-> penv, updates |-> <<>>], snap[1].skills, cfg)

\* one step of the returned reversal
RestoreAlwaysDelete(penv, update) == [penv EXCEPT ![update.key] = <<>>]

\* a reversal without the delete branch
RestoreNeverDelete(penv, update) ==
    IF update.prev = <<>> THEN penv
    ELSE [penv EXCEPT ![update.key] = update.prev]

Restore(penv, update) ==
    IF update.prev = <<>> THEN [penv EXCEPT ![update.key] = <<>>]
    ELSE [penv EXCEPT ![update.key] = update.prev]

\* the closure both activations return
RECURSIVE Reversal(_, _)
Reversal(penv, updates) ==
    IF updates = <<>> THEN penv
    ELSE Reversal(Restore(penv, Head(updates)), Tail(updates))

\* buildWorkspaceSkillSnapshot with opts.entries given; the prompt is the
\* external formatter's string over the eligible skills
buildWorkspaceSkillSnapshot(es, cfg, penv) ==
    LET el == filterSkillEntries(es, cfg, penv)
    IN  [prompt |-> [i \in DOMAIN el |-> el[i].skill.name],
         skills |-> [i \in DOMAIN el |->
                        [name |-> el[i].skill.name, primaryEnv |-> PrimaryEnvOf(el[i])]]]

\* ------------------------------------------------------------------ source merge

SkillNames == {"a", "b"}
ExtraDirNames == {"x1", "x2"}
ManagedDir == "managed"
BundledDir == "bundled"
WorkspaceDir == "workspace"
Dirs == ExtraDirNames \cup {ManagedDir, BundledDir, WorkspaceDir}

\* the record the loader makes of the skill called name in directory dir
SkillRecord(dir, name, source) ==
    [name |-> name, description |-> <<"about", name, dir>>,
     filePath |-> <<dir, name>>, source |-> source]

FilePaths == Dirs \X SkillNames

\* the inner loadSkills of loadSkillEntries: a bare list, a wrapper object
\* with a skills list, or anything else (an empty list)
loadSkills(dir) ==
    LET ld == loaded[dir]
    IN  IF ld.shape = "list" THEN ld.skills
        ELSE IF ld.shape = "wrapper" THEN ld.skills
        ELSE <<>>

\* merged.set(skill.name, skill) on a Map kept as the list of its values in
\* insertion order
MapSetKeepFirst(merged, skill) ==
    IF \E i \in DOMAIN merged : merged[i].name = skill.name THEN merged
    ELSE Append(merged, skill)

MapSet(merged, skill) ==
    IF \E i \in DOMAIN merged : merged[i].name = skill.name
    THEN [i \in DOMAIN merged |->
            IF merged[i].name = skill.name THEN skill ELSE merged[i]]
    ELSE Append(merged, skill)

RECURSIVE MapSetAll(_, _)
MapSetAll(merged, skills) ==
    IF skills = <<>> THEN merged
    ELSE MapSetAll(MapSet(merged, Head(skills)), Tail(skills))

RECURSIVE FlatMapLoad(_)
FlatMapLoad(dirs) ==
    IF dirs = <<>> THEN <<>> ELSE loadSkills(Head(dirs)) \o FlatMapLoad(Tail(dirs))

\* fs.readFileSync and parseFrontmatter inside the try of loadSkillEntries
ReadFrontmatter(filePath) ==
    IF files[filePath] = <<>> THEN EmptyFrontmatter
    ELSE parseFrontmatter(files[filePath][1])

ToSkillEntry(skill) ==
    LET frontmatter == ReadFrontmatter(skill.filePath)
    IN  [skill |-> skill, frontmatter |-> frontmatter,
         clawdis |-> resolveClawdisMetadata(frontmatter)]

\* loadSkillEntries(workspaceDir, opts): optExtraDirs is
\* opts?.config?.skillsLoad?.extraDirs ?? [], optBundled is
\* opts?.bundledSkillsDir ?? resolveBundledSkillsDir()
ExtraSkills(optExtraDirs) ==
    FlatMapLoad(SelectSeq(optExtraDirs, LAMBDA d : d # ""))
BundledSkills(optBundled) ==
    IF optBundled # <<>> THEN loadSkills(optBundled[1]) ELSE <<>>
ManagedSkills == loadSkills(ManagedDir)
WorkspaceSkills(workspaceDir) == loadSkills(workspaceDir)

MergeSources(extraSkills, bundledSkills, managedSkills, workspaceSkills) ==
    MapSetAll(MapSetAll(MapSetAll(MapSetAll(<<>>, extraSkills), bundledSkills),
                        managedSkills), workspaceSkills)

\* a merge that leaves out the skills whose file cannot be read
loadSkillEntriesSkipUnreadable(workspaceDir, optExtraDirs, optBundled) ==
    LET merged == SelectSeq(MergeSources(ExtraSkills(optExtraDirs),
                                         BundledSkills(optBundled), ManagedSkills,
                                         WorkspaceSkills(workspaceDir)),
                            LAMBDA skill : files[skill.filePath] # <<>>)
    IN  [i \in DOMAIN merged |-> ToSkillEntry(merged[i])]

loadSkillEntries(workspaceDir, optExtraDirs, optBundled) ==
    LET merged == MergeSources(ExtraSkills(optExtraDirs), BundledSkills(optBundled),
                               ManagedSkills, WorkspaceSkills(workspaceDir))
    IN  [i \in DOMAIN merged |-> ToSkillEntry(merged[i])]

\* ------------------------------------------------------------------ install dispatcher

\* `${spec.kind}-${index}` as a token string
KindIndexId(kind, index) == <<kind, "-", ToString(index)>>

resolveInstallIdOneBased(ispec, index) ==
    Trim(IF ispec.id # <<>> THEN ispec.id[1] ELSE KindIndexId(ispec.kind, index + 1))

\* index is the 0-based position in entry.clawdis.install
resolveInstallId(ispec, index) ==
    Trim(IF ispec.id # <<>> THEN ispec.id[1] ELSE KindIndexId(ispec.kind, index))

\* entry.clawdis?.install ?? []
InstallSpecs(entry) ==
    IF entry.clawdis = <<>> \/ entry.clawdis[1].install = <<>> THEN <<>>
    ELSE entry.clawdis[1].install[1]

\* a lookup that falls back to the first spec of the list
FindInstallIndexOrFirst(entry, installId) ==
    LET specs == InstallSpecs(entry)
        hits == {i \in DOMAIN specs : resolveInstallId(specs[i], i - 1) = installId}
    IN  IF hits = {} THEN (IF specs = <<>> THEN -1 ELSE 0)
        ELSE (CHOOSE i \in hits : \A j \in hits : i <= j) - 1

\* the 0-based index of the first spec whose resolved id is installId, -1 if none
FindInstallIndex(entry, installId) ==
    LET specs == InstallSpecs(entry)
        hits == {i \in DOMAIN specs : resolveInstallId(specs[i], i - 1) = installId}
    IN  IF hits = {} THEN -1
        ELSE (CHOOSE i \in hits : \A j \in hits : i <= j) - 1

findInstallSpec(entry, installId) ==
    LET index == FindInstallIndex(entry, installId)
    IN  IF index = -1 THEN <<>> ELSE Some(InstallSpecs(entry)[index + 1])

\* String.prototype.toLowerCase on the manager names used
ToLowerCase(word) ==
    IF word = "PNPM" THEN "pnpm"
    ELSE IF word = "YARN" THEN "yarn"
    ELSE IF word = "NPM" THEN "npm"
    ELSE word

\* cfg is the request's config: <<>> or <<[nodeManager |-> <<>> or <<token string>>]>>
resolveSkillsInstallPreferences(cfg) ==
    LET managerRaw == IF cfg = <<>> \/ cfg[1].nodeManager = <<>> THEN <<>>
                      ELSE Trim(cfg[1].nodeManager[1])
        manager == IF Len(managerRaw) = 1 THEN ToLowerCase(managerRaw[1]) ELSE ""
    IN  [preferBrew |-> TRUE,
         nodeManager |-> IF manager \in {"pnpm", "yarn", "npm"} THEN manager ELSE "npm"]

\* yarn given the argument order of pnpm
buildNodeInstallCommandYarnAdd(packageName, prefs) ==
    IF prefs.nodeManager = "pnpm" THEN <<"pnpm", "add", "-g", packageName>>
    ELSE IF prefs.nodeManager = "yarn" THEN <<"yarn", "add", "-g", packageName>>
    ELSE <<"npm", "install", "-g", packageName>>

buildNodeInstallCommand(packageName, prefs) ==
    IF prefs.nodeManager = "pnpm" THEN <<"pnpm", "add", "-g", packageName>>
    ELSE IF prefs.nodeManager = "yarn" THEN <<"yarn", "global", "add", packageName>>
    ELSE <<"npm", "install", "-g", packageName>>

CommandError(msg) == [argv |-> <<>>, error |-> Some(msg)]
CommandArgv(argv) == [argv |-> Some(argv), error |-> <<>>]

\* the uv case without its package check
buildInstallCommandUvUnchecked(ispec, prefs) ==
    IF ispec.kind = "brew"
    THEN IF ~TruthyStr(ispec.formula) THEN CommandError("missing brew formula")
         ELSE CommandArgv(<<"brew", "install", ispec.formula[1]>>)
    ELSE IF ispec.kind = "node"
    THEN IF ~TruthyStr(ispec.package) THEN CommandError("missing node package")
         ELSE CommandArgv(buildNodeInstallCommand(ispec.package[1], prefs))
    ELSE IF ispec.kind = "go"
    THEN IF ~TruthyStr(ispec.module) THEN CommandError("missing go module")
         ELSE CommandArgv(<<"go", "install", ispec.module[1]>>)
    ELSE IF ispec.kind = "uv"
    THEN CommandArgv(<<"uv", "tool", "install">> \o ispec.package)
    ELSE CommandError("unsupported installer")

buildInstallCommand(ispec, prefs) ==
    IF ispec.kind = "brew"
    THEN IF ~TruthyStr(ispec.formula) THEN CommandError("missing brew formula")
         ELSE CommandArgv(<<"brew", "install", ispec.formula[1]>>)
    ELSE IF ispec.kind = "node"
    THEN IF ~TruthyStr(ispec.package) THEN CommandError("missing node package")
         ELSE CommandArgv(buildNodeInstallCommand(ispec.package[1], prefs))
    ELSE IF ispec.kind = "go"
    THEN IF ~TruthyStr(ispec.module) THEN CommandError("missing go module")
         ELSE CommandArgv(<<"go", "install", ispec.module[1]>>)
    ELSE IF ispec.kind = "uv"
    THEN IF ~TruthyStr(ispec.package) THEN CommandError("missing uv package")
         ELSE CommandArgv(<<"uv", "tool", "install", ispec.package[1]>>)
    ELSE CommandError("unsupported installer")

DefaultTimeoutMs == 300000
MinTimeoutMs == 1000
MaxTimeoutMs == 900000

Min(a, b) == IF a <= b THEN a ELSE b
Max(a, b) == IF a >= b THEN a ELSE b

\* the upper limit alone
ClampTimeoutNoFloor(req) ==
    Min(IF req.timeoutMs # <<>> THEN req.timeoutMs[1] ELSE DefaultTimeoutMs,
        MaxTimeoutMs)

\* Math.min(Math.max(params.timeoutMs ?? 300_000, 1_000), 900_000)
ClampTimeout(req) ==
    Min(Max(IF req.timeoutMs # <<>> THEN req.timeoutMs[1] ELSE DefaultTimeoutMs,
            MinTimeoutMs),
        MaxTimeoutMs)

Failure(message) ==
    [ok |-> FALSE, message |-> message, stdout |-> <<>>, stderr |-> <<>>, code |-> <<>>]

BrewInstallUv == <<"brew", "install", "uv">>

\* a lookup that falls back to the first entry
FindEntryOrFirst(es, skillName) ==
    LET hits == {i \in DOMAIN es : es[i].skill.name = skillName}
    IN  IF hits = {} THEN (IF es = <<>> THEN 0 ELSE 1)
        ELSE CHOOSE i \in hits : \A j \in hits : i <= j

\* entries.find((item) => item.skill.name === skillName): its index, 0 if none
FindEntry(es, skillName) ==
    LET hits == {i \in DOMAIN es : es[i].skill.name = skillName}
    IN  IF hits = {} THEN 0 ELSE CHOOSE i \in hits : \A j \in hits : i <= j

\* installSkill up to its first await or return
InstallStart ==
    /\ ipc = "idle"
    /\ LET timeoutMs == ClampTimeout(request)
           es == loadSkillEntries(request.workspaceDir, <<>>, bundledDir)
           at == FindEntry(es, request.skillName)
       IN  /\ installEntries' = es
           /\ IF at = 0
              THEN /\ result' = Some(Failure(<<"Skill not found: ", request.skillName>>))
                   /\ ipc' = "done"
                   /\ UNCHANGED <<spec, specIndex, command, calls>>
              ELSE LET found == findInstallSpec(es[at], request.installId)
                   IN  /\ spec' = found
                       /\ specIndex' = FindInstallIndex(es[at], request.installId)
                       /\ IF found = <<>>
                          THEN /\ result' = Some(Failure(<<"Installer not found: ",
                                                           request.installId>>))
                               /\ ipc' = "done"
                               /\ UNCHANGED <<command, calls>>
                          ELSE LET prefs == resolveSkillsInstallPreferences(request.config)
                                   cmd == buildInstallCommand(found[1], prefs)
                               IN  /\ command' = Some(cmd)
                                   /\ IF cmd.error # <<>>
                                      THEN /\ result' = Some(Failure(<<cmd.error[1]>>))
                                           /\ ipc' = "done"
                                           /\ calls' = calls
                                      ELSE IF found[1].kind = "uv" /\ ~hasBinary("uv")
                                      THEN IF hasBinary("brew")
                                           THEN /\ calls' = Append(calls,
                                                        [argv |-> BrewInstallUv,
                                                         timeoutMs |-> timeoutMs])
                                                /\ ipc' = "brew"
                                                /\ result' = result
                                           ELSE /\ result' = Some(Failure(
                                                        <<"uv not installed (install via brew)">>))
                                                /\ ipc' = "done"
                                                /\ calls' = calls
                                      ELSE IF cmd.argv = <<>> \/ cmd.argv[1] = <<>>
                                      THEN /\ result' = Some(Failure(<<"invalid install command">>))
                                           /\ ipc' = "done"
                                           /\ calls' = calls
                                      ELSE /\ calls' = Append(calls,
                                                   [argv |-> cmd.argv[1],
                                                    timeoutMs |-> timeoutMs])
                                           /\ ipc' = "run"
                                           /\ result' = result
    /\ UNCHANGED <<request, brewResult, runResult, mergeVars, envVars, bestboxVars>>

\* what runCommandWithTimeout can resolve to: code is <<>> for null
RunResults ==
    {[code |-> c, stdout |-> o[1], stderr |-> o[2]] :
        c \in {Some(0), Some(1), <<>>},
        o \in {<< <<>>, <<>> >>, << <<WS, "out", WS>>, <<"err", WS>> >>}}

\* the result returned when the bootstrap sub-install failed
BrewFailure(r) ==
    [ok |-> FALSE, message |-> <<"Failed to install uv (brew)">>,
     stdout |-> Trim(r.stdout), stderr |-> Trim(r.stderr), code |-> r.code]

\* brewResult.code !== 0
BrewFailedOnlyNonzero(r) == r.code # <<>> /\ r.code # Some(0)

BrewFailed(r) == r.code # Some(0)

\* `brew install uv` resolves: installSkill up to its next await or return
InstallBrewDone ==
    /\ ipc = "brew"
    /\ \E r \in RunResults :
          /\ brewResult' = Some(r)
          /\ IF BrewFailed(r)
             THEN /\ result' = Some(BrewFailure(r))
                  /\ ipc' = "done"
                  /\ calls' = calls
             ELSE IF command[1].argv = <<>> \/ command[1].argv[1] = <<>>
             THEN /\ result' = Some(Failure(<<"invalid install command">>))
                  /\ ipc' = "done"
                  /\ calls' = calls
             ELSE /\ calls' = Append(calls, [argv |-> command[1].argv[1],
                                             timeoutMs |-> ClampTimeout(request)])
                  /\ ipc' = "run"
                  /\ result' = result
    /\ UNCHANGED <<request, installEntries, spec, specIndex, command, runResult,
                   mergeVars, envVars, bestboxVars>>

\* success tested as !result.code, which a null code passes
FinalResultNullOk(r) ==
    LET success == r.code = Some(0) \/ r.code = <<>>
    IN  [ok |-> success,
         message |-> IF success THEN <<"Installed">> ELSE <<"Install failed">>,
         stdout |-> Trim(r.stdout), stderr |-> Trim(r.stderr), code |-> r.code]

FinalResult(r) ==
    LET success == r.code = Some(0)
    IN  [ok |-> success,
         message |-> IF success THEN <<"Installed">> ELSE <<"Install failed">>,
         stdout |-> Trim(r.stdout), stderr |-> Trim(r.stderr), code |-> r.code]

\* a failed command is handed to the runner again
InstallRunDoneRetry ==
    /\ ipc = "run"
    /\ \E r \in RunResults :
          /\ runResult' = Some(r)
          /\ IF r.code = Some(0) \/ Len(calls) >= 4
             THEN /\ result' = Some(FinalResult(r))
                  /\ ipc' = "done"
                  /\ calls' = calls
             ELSE /\ calls' = Append(calls, calls[Len(calls)])
                  /\ ipc' = "run"
                  /\ result' = result
    /\ UNCHANGED <<request, installEntries, spec, specIndex, command, brewResult,
                   mergeVars, envVars, bestboxVars>>

\* the synthesized command resolves and installSkill returns
InstallRunDone ==
    /\ ipc = "run"
    /\ \E r \in RunResults :
          /\ runResult' = Some(r)
          /\ result' = Some(FinalResult(r))
    /\ ipc' = "done"
    /\ UNCHANGED <<request, installEntries, spec, specIndex, command, calls, brewResult,
                   mergeVars, envVars, bestboxVars>>

NextInstall == InstallStart \/ InstallBrewDone \/ InstallRunDone

\* ---- inputs of the merge

MaxSkills == 2

SourceTag(dir) ==
    IF dir = WorkspaceDir THEN "clawdis-workspace"
    ELSE IF dir = ManagedDir THEN "clawdis-managed"
    ELSE IF dir = BundledDir THEN "clawdis-bundled"
    ELSE "clawdis-extra"

\* the lists a loader can return for dir: names unique within one call
SkillLists(dir) ==
    LET recs == {SkillRecord(dir, n, SourceTag(dir)) : n \in SkillNames}
    IN  {l \in UNION {[1..k -> recs] : k \in 0..MaxSkills} :
            \A i, j \in DOMAIN l : i # j => l[i].name # l[j].name}

NoRequires == <<>>
NoInstall == <<>>

ClawdisRaw(always, skillKey, primaryEnv, requires, install) ==
    [always |-> always, skillKey |-> skillKey, primaryEnv |-> primaryEnv,
     requires |-> requires, install |-> install]

JsonObject(clawdis) == [t |-> "object", clawdis |-> clawdis]

SkillFile(name, metadata) ==
    <<DashLine, KvLine("name", PlainValue(name)), KvLine(MetadataKey, metadata),
      DashLine, TextLine>>

\* a well-formed skill file whose metadata names the directory it lives in
DefaultFile(p) ==
    SkillFile(p[2], [text |-> "{...}",
                     json |-> JsonObject(Some(ClawdisRaw(<<>>, Some(p[1]), <<>>,
                                                         NoRequires, NoInstall)))])

MergeIdle ==
    /\ loaded = [d \in Dirs |-> [shape |-> "list", skills |-> <<>>]]
    /\ extraDirs = <<>>
    /\ bundledDir = <<>>
    /\ files = [p \in FilePaths |-> <<>>]
    /\ skillEntries = <<>>
    /\ mpc = "idle"

EnvIdleButPath ==
    /\ entries = <<>>
    /\ config = <<>>
    /\ env = <<>>
    /\ env0 = <<>>
    /\ scopes = <<>>
    /\ eligible = <<>>
    /\ snapshot = <<>>

EnvIdle == EnvIdleButPath /\ bins = <<>>

InstallIdle ==
    /\ request = <<>>
    /\ installEntries = <<>>
    /\ ipc = "idle"
    /\ spec = <<>>
    /\ specIndex = -1
    /\ command = <<>>
    /\ calls = <<>>
    /\ brewResult = <<>>
    /\ runResult = <<>>
    /\ result = <<>>

BestBoxIdle ==
    /\ pluginConfig = <<>>
    /\ params = <<>>
    /\ bpc = "idle"
    /\ effectiveDomain = <<>>
    /\ queryType = <<>>
    /\ requests = <<>>
    /\ toolResult = <<>>

InitMerge ==
    /\ \E shapes \in {[ok |-> "list", broken |-> {}], [ok |-> "wrapper", broken |-> {}],
                      [ok |-> "list", broken |-> {ManagedDir}]} :
         \E lx1 \in SkillLists("x1"), lx2 \in SkillLists("x2"),
            lb \in SkillLists(BundledDir), lm \in SkillLists(ManagedDir),
            lw \in SkillLists(WorkspaceDir) :
            loaded = [d \in Dirs |->
                        [shape |-> IF d \in shapes.broken THEN "other" ELSE shapes.ok,
                         skills |-> IF d = "x1" THEN lx1
                                    ELSE IF d = "x2" THEN lx2
                                    ELSE IF d = BundledDir THEN lb
                                    ELSE IF d = ManagedDir THEN lm
                                    ELSE lw]]
    /\ extraDirs \in {<<>>, <<"x1", "x2">>, <<"", "x2">>}
    /\ bundledDir \in {<<>>, Some(BundledDir)}
    /\ files = [p \in FilePaths |-> Some(DefaultFile(p))]
    /\ skillEntries = <<>>
    /\ mpc = "idle"
    /\ EnvIdle
    /\ InstallIdle
    /\ BestBoxIdle

\* loadWorkspaceSkillEntries(workspaceDir, {config}) with the bundled
\* directory resolveBundledSkillsDir() finds
LoadSkillEntries ==
    /\ mpc = "idle"
    /\ skillEntries' = loadSkillEntries(WorkspaceDir, extraDirs, bundledDir)
    /\ mpc' = "done"
    /\ UNCHANGED <<loaded, extraDirs, bundledDir, files, envVars, installVars,
                   bestboxVars>>

NextMerge == LoadSkillEntries

SpecMerge == InitMerge /\ [][NextMerge]_vars

\* ---- C1

\* the records a source contributes for a name, by rank (4 = workspace)
SourceRecords(rank, n) ==
    LET l == IF rank = 4 THEN WorkspaceSkills(WorkspaceDir)
             ELSE IF rank = 3 THEN ManagedSkills
             ELSE IF rank = 2 THEN BundledSkills(bundledDir)
             ELSE ExtraSkills(extraDirs)
    IN  {l[i] : i \in {j \in DOMAIN l : l[j].name = n}}

TopRank(n) ==
    LET rs == {r \in 1..4 : SourceRecords(r, n) # {}}
    IN  IF rs = {} THEN 0 ELSE CHOOSE r \in rs : \A q \in rs : q <= r

\* C1: the merged result holds exactly one entry per name some source
\* defines, and that entry is the whole record of the highest-precedence
\* source defining the name (workspace > managed > bundled > extra).
C1_MergePrecedence ==
    mpc = "done" =>
        \A n \in SkillNames :
            LET hits == {i \in DOMAIN skillEntries : skillEntries[i].skill.name = n}
            IN  IF TopRank(n) = 0 THEN hits = {}
                ELSE /\ Cardinality(hits) = 1
                     /\ \A i \in hits :
                            skillEntries[i].skill \in SourceRecords(TopRank(n), n)

\* a name defined by all four sources has been merged
C1_Witness ==
    /\ mpc = "done"
    /\ \E n \in SkillNames :
          /\ \A r \in 1..4 : SourceRecords(r, n) # {}
          /\ \E i \in DOMAIN skillEntries :
                /\ skillEntries[i].skill.name = n
                /\ skillEntries[i].skill.source = "clawdis-workspace"

\* ------------------------------------------------------------------ filter and activation: state machine

EnvNames == {"E1", "E2"}

Meta(always, skillKey, primaryEnv, requires) ==
    [always |-> always, skillKey |-> skillKey, primaryEnv |-> primaryEnv,
     requires |-> requires, install |-> <<>>]

Requires(b, e, c) == [bins |-> b, env |-> e, config |-> c]

\* an entry of the workspace directory with the given metadata
Entry(name, clawdis) ==
    [skill |-> SkillRecord(WorkspaceDir, name, "clawdis-workspace"),
     frontmatter |-> EmptyFrontmatter, clawdis |-> clawdis]

SkillConfig(enabled, envPairs, apiKey) ==
    [enabled |-> enabled, env |-> envPairs, apiKey |-> apiKey]

\* config.skills over the keys for which cfgs gives a SkillConfig
SkillsOf(cfgs) == [k \in {x \in DOMAIN cfgs : cfgs[x] # <<>>} |-> cfgs[k][1]]

Config(cfgs, tree) == Some([skills |-> Some(SkillsOf(cfgs)), tree |-> tree])

NoScope == [status |-> "none", updates |-> <<>>, via |-> "none", seen |-> <<>>]

\* the skills an activation loop goes through: for each its name, the key
\* its configuration is resolved under and its primaryEnv
SeenEntries(el) ==
    [i \in DOMAIN el |-> [name |-> el[i].skill.name, key |-> resolveSkillKey(el[i]),
                          primaryEnv |-> PrimaryEnvOf(el[i])]]
SeenSnapshot(snap) ==
    [i \in DOMAIN snap.skills |->
        [name |-> snap.skills[i].name, key |-> snap.skills[i].name,
         primaryEnv |-> snap.skills[i].primaryEnv]]

\* filterWorkspaceSkillEntries(entries, config)
Filter ==
    /\ eligible' = Some(filterSkillEntries(entries, config, env))
    /\ UNCHANGED <<entries, config, env, bins, env0, scopes, snapshot>>
    /\ UNCHANGED <<mergeVars, installVars, bestboxVars>>

\* a caller filters the entries and activates the eligible ones
ApplyEntries(s) ==
    /\ scopes[s].status # "active"
    /\ LET el == filterSkillEntries(entries, config, env)
           st == applySkillEnvOverrides(el, config, env)
       IN  /\ eligible' = Some(el)
           /\ env' = st.env
           /\ scopes' = [scopes EXCEPT ![s] = [status |-> "active",
                                               updates |-> st.updates,
                                               via |-> "entries",
                                               seen |-> SeenEntries(el)]]
    /\ UNCHANGED <<entries, config, bins, env0, snapshot>>
    /\ UNCHANGED <<mergeVars, installVars, bestboxVars>>

\* a caller builds the snapshot and activates from it
ApplySnapshot(s) ==
    /\ scopes[s].status # "active"
    /\ LET snap == buildWorkspaceSkillSnapshot(entries, config, env)
           st == applySkillEnvOverridesFromSnapshot(Some(snap), config, env)
       IN  /\ snapshot' = Some(snap)
           /\ env' = st.env
           /\ scopes' = [scopes EXCEPT ![s] = [status |-> "active",
                                               updates |-> st.updates,
                                               via |-> "snapshot",
                                               seen |-> SeenSnapshot(snap)]]
    /\ UNCHANGED <<entries, config, bins, env0, eligible>>
    /\ UNCHANGED <<mergeVars, installVars, bestboxVars>>

\* the caller invokes the reversal the activation returned
Revert(s) ==
    /\ scopes[s].status = "active"
    /\ env' = Reversal(env, scopes[s].updates)
    /\ scopes' = [scopes EXCEPT ![s].status = "reverted"]
    /\ UNCHANGED <<entries, config, bins, env0, eligible, snapshot>>
    /\ UNCHANGED <<mergeVars, installVars, bestboxVars>>

\* ---- inputs of the filter and of the activation

EnvStates == {<<>>, Some(""), Some("old")}

CfgEnvV == SkillConfig(<<>>, Some(<< <<"E1", "v">> >>), <<>>)
CfgEmptyAndKey == SkillConfig(<<>>, Some(<< <<"E1", "">>, <<"E2", "w">> >>), Some("key"))
CfgKeyOnly == SkillConfig(<<>>, <<>>, Some("key"))
CfgDisabled == SkillConfig(Some(FALSE), Some(<< <<"E1", "v">> >>), Some("key"))
CfgEmptyKey == SkillConfig(Some(TRUE), <<>>, Some(""))
CfgB == SkillConfig(<<>>, Some(<< <<"E1", "vb">> >>), Some("keyb"))

EmptyTree == [k \in {} |-> Undefined]
FeaturePath == <<"feature", "", "on">>
TreeOn == [k \in {"feature"} |-> JsObject([x \in {"on"} |-> JsBool(TRUE)])]
TreeOff ==
    [k \in {"browser", "feature"} |->
        IF k = "browser" THEN JsObject([x \in {"enabled"} |-> JsBool(FALSE)])
        ELSE JsObject([x \in {"on"} |-> JsString(<<"y", WS>>)])]

EntryB == Entry("b", Some(Meta(<<>>, <<>>, Some("E1"), <<>>)))

ActivationMetas ==
    {<<>>} \cup
    {Some(Meta(al, sk, pe, rq)) :
        al \in {<<>>, Some(TRUE)}, sk \in {<<>>, Some("k")},
        pe \in {<<>>, Some("E1")},
        rq \in {<<>>, Some(Requires(<<>>, <<"E2", "E1">>, <<>>))}}

ActivationConfigs ==
    {<<>>} \cup
    {Config([k \in {"a", "k", "b"} |-> IF k = "a" THEN ca ELSE IF k = "k" THEN ck ELSE cb],
            EmptyTree) :
        ca \in Opt({CfgEnvV, CfgEmptyAndKey, CfgKeyOnly, CfgDisabled, CfgEmptyKey}),
        ck \in Opt({CfgEnvV, CfgKeyOnly}),
        cb \in Opt({CfgB})}

InitEnv ==
    /\ \E m \in ActivationMetas : entries \in {<<Entry("a", m)>>, <<Entry("a", m), EntryB>>}
    /\ config \in ActivationConfigs
    /\ env \in [EnvNames -> EnvStates]
    /\ env0 = env
    /\ bins = <<>>
    /\ scopes = [s \in {1} |-> NoScope]
    /\ eligible = <<>>
    /\ snapshot = <<>>
    /\ MergeIdle
    /\ InstallIdle
    /\ BestBoxIdle

ActivateEntries == \E s \in DOMAIN scopes : ApplyEntries(s)
ActivateSnapshot == \E s \in DOMAIN scopes : ApplySnapshot(s)
RunReversal == \E s \in DOMAIN scopes : Revert(s)

NextEnv == ActivateEntries \/ ActivateSnapshot \/ RunReversal

SpecEnv == InitEnv /\ [][NextEnv]_vars

\* ---- C2

\* C2: an activation followed by one call of the reversal it returned leaves
\* process.env as it was before the activation, every variable present or
\* absent as before and with the same value.
C2_RevertRestores ==
    \A s \in DOMAIN scopes : scopes[s].status = "reverted" => env = env0

\* a reversal has restored a variable that was unset and one that was empty
C2_Witness ==
    \E s \in DOMAIN scopes :
        /\ scopes[s].status = "reverted"
        /\ \E i, j \in DOMAIN scopes[s].updates :
              /\ scopes[s].updates[i].prev = <<>>
              /\ scopes[s].updates[j].prev = Some("")

\* ---- C3

\* the skills an active scope went through, each with the configuration the
\* loop resolved for it and its primaryEnv
ActivatedSkills(s) ==
    IF scopes[s].via = "entries"
    THEN [i \in DOMAIN eligible[1] |->
            [cfg |-> resolveSkillConfig(config, resolveSkillKey(eligible[1][i])),
             primaryEnv |-> PrimaryEnvOf(eligible[1][i])]]
    ELSE [i \in DOMAIN snapshot[1].skills |->
            [cfg |-> resolveSkillConfig(config, snapshot[1].skills[i].name),
             primaryEnv |-> snapshot[1].skills[i].primaryEnv]]

\* the non-empty values configured for variable n, as <<skill index, 1 for
\* an env override or 2 for the apiKey, value>>
ConfiguredFor(s, n) ==
    LET act == ActivatedSkills(s)
    IN  {<<i, 1, EnvOverride(act[i].cfg[1], n)[1]>> :
            i \in {j \in DOMAIN act : /\ act[j].cfg # <<>>
                                      /\ TruthyStr(EnvOverride(act[j].cfg[1], n))}}
        \cup
        {<<i, 2, act[i].cfg[1].apiKey[1]>> :
            i \in {j \in DOMAIN act : /\ act[j].cfg # <<>>
                                      /\ act[j].primaryEnv = Some(n)
                                      /\ TruthyStr(act[j].cfg[1].apiKey)}}

FirstConfigured(s, n) ==
    CHOOSE c \in ConfiguredFor(s, n) :
        \A d \in ConfiguredFor(s, n) : c[1] < d[1] \/ (c[1] = d[1] /\ c[2] <= d[2])

\* C3 as stated: every variable that is set before the activation, also one
\* set to the empty string, keeps its value while the activation is in
\* effect, and every unset variable with a configured value holds it.
C3_SetVariablesKept ==
    \A s \in DOMAIN scopes :
        scopes[s].status = "active" =>
            \A n \in EnvNames :
                /\ env0[n] # <<>> => env[n] = env0[n]
                /\ (env0[n] = <<>> /\ ConfiguredFor(s, n) # {}) =>
                        env[n] = Some(FirstConfigured(s, n)[3])

\* C3 (amended): a variable set to a non-empty value keeps it while the
\* activation is in effect; a variable that is unset or set to the empty
\* string holds the first non-empty value (env override before apiKey, skills
\* in list order) that the configurations resolved by the activation give it,
\* and is left as it was when they give it none.
C3_NonEmptyVariablesKept ==
    \A s \in DOMAIN scopes :
        scopes[s].status = "active" =>
            \A n \in EnvNames :
                IF TruthyStr(env0[n]) THEN env[n] = env0[n]
                ELSE IF ConfiguredFor(s, n) # {}
                THEN env[n] = Some(FirstConfigured(s, n)[3])
                ELSE env[n] = env0[n]

\* an activation is in effect that kept a set variable and filled an unset
\* one and an empty one
C3_Witness ==
    \E s \in DOMAIN scopes :
        /\ scopes[s].status = "active"
        /\ TruthyStr(env0["E2"]) /\ ConfiguredFor(s, "E2") # {} /\ env["E2"] = env0["E2"]
        /\ env0["E1"] \in {<<>>, Some("")} /\ TruthyStr(env["E1"])

\* ---- C4

\* C4: whichever activation ran, process.env and the recorded updates are
\* those the other activation produces from the same entries, configuration
\* and environment.
C4_SnapshotMatchesEntries ==
    \A s \in DOMAIN scopes :
        scopes[s].status = "active" =>
            LET viaEntries ==
                    applySkillEnvOverrides(filterSkillEntries(entries, config, env0),
                                           config, env0)
                viaSnapshot ==
                    applySkillEnvOverridesFromSnapshot(
                        Some(buildWorkspaceSkillSnapshot(entries, config, env0)), config, env0)
            IN  /\ viaEntries.env = viaSnapshot.env
                /\ viaEntries.updates = viaSnapshot.updates
                /\ env = viaEntries.env

FilterMetas ==
    {<<>>} \cup
    {Some(Meta(al, sk, pe, rq)) :
        al \in {<<>>, Some(TRUE)}, sk \in {<<>>, Some("k")},
        pe \in {<<>>, Some("E1")},
        rq \in {<<>>} \cup
               {Some(Requires(b, e, c)) :
                    b \in {<<>>, <<"git", "jq">>},
                    e \in {<<>>, <<"E1">>, <<"E2", "E1">>},
                    c \in {<<>>, <<FeaturePath, BrowserEnabledPath>>}}}

FilterConfigs ==
    {<<>>} \cup
    {Config([k \in {"a", "k"} |-> IF k = "a" THEN ca ELSE ck], tree) :
        ca \in Opt({CfgEnvV, CfgEmptyAndKey, CfgDisabled}),
        ck \in Opt({CfgKeyOnly, CfgDisabled}),
        tree \in {EmptyTree, TreeOn, TreeOff}}

InitFilter ==
    /\ \E m \in FilterMetas : entries = <<Entry("a", m)>>
    /\ config \in FilterConfigs
    /\ \E e1 \in EnvStates, e2 \in {<<>>, Some("old")} :
          env = [n \in EnvNames |-> IF n = "E1" THEN e1 ELSE e2]
    /\ env0 = env
    /\ bins \in {<<>>, <<{"git"}>>, <<{"git"}, {"jq"}>>}
    /\ scopes = [s \in {1} |-> NoScope]
    /\ eligible = <<>>
    /\ snapshot = <<>>
    /\ MergeIdle
    /\ InstallIdle
    /\ BestBoxIdle

NextFilter == Filter

SpecFilter == InitFilter /\ [][NextFilter]_vars

\* ---- C5 to C8

Included(e) == \E i \in DOMAIN eligible[1] : eligible[1][i] = e

\* the per-skill configuration, looked up under metadata.skillKey when the
\* metadata gives one and under the skill's name otherwise
SkillConfigOf(e) ==
    LET key == IF e.clawdis # <<>> /\ e.clawdis[1].skillKey # <<>>
               THEN e.clawdis[1].skillKey[1] ELSE e.skill.name
    IN  IF config = <<>> \/ key \notin DOMAIN config[1].skills[1] THEN <<>>
        ELSE Some(config[1].skills[1][key])

DisabledByConfig(e) == SkillConfigOf(e) # <<>> /\ SkillConfigOf(e)[1].enabled = Some(FALSE)
AlwaysOn(e) == e.clawdis # <<>> /\ e.clawdis[1].always = Some(TRUE)

BinsMet(e) == \A b \in SeqRange(RequiredBins(e)) : hasBinary(b)
EnvMet(e) ==
    \A n \in SeqRange(RequiredEnv(e)) : EnvRequirementMet(e, SkillConfigOf(e), n, env)
ConfigMet(e) == \A p \in SeqRange(RequiredConfig(e)) : isConfigPathTruthy(config, p)

\* C5: a skill whose per-skill configuration sets enabled = false is
\* excluded by the filter, also when its metadata declares always = true.
C5_DisabledExcluded ==
    eligible # <<>> =>
        \A e \in SeqRange(entries) : DisabledByConfig(e) => ~Included(e)

\* a disabled skill marked always whose requirements all hold was filtered out
C5_Witness ==
    /\ eligible # <<>>
    /\ \E e \in SeqRange(entries) :
          /\ DisabledByConfig(e) /\ AlwaysOn(e)
          /\ BinsMet(e) /\ EnvMet(e) /\ ConfigMet(e)
          /\ ~Included(e)

\* C6: a skill marked always = true that the configuration does not disable
\* is included whatever binary, environment or configuration requirement of
\* it is unmet.
C6_AlwaysIncluded ==
    eligible # <<>> =>
        \A e \in SeqRange(entries) : (AlwaysOn(e) /\ ~DisabledByConfig(e)) => Included(e)

\* an always skill was included with a requirement of each list unmet
C6_Witness ==
    /\ eligible # <<>>
    /\ \E e \in SeqRange(entries) :
          /\ AlwaysOn(e) /\ ~DisabledByConfig(e)
          /\ ~BinsMet(e) /\ ~EnvMet(e) /\ ~ConfigMet(e)
          /\ Included(e)

\* C7: a skill neither disabled nor marked always is included iff every
\* required binary, environment variable and configuration path is
\* satisfied; a missing or empty list is satisfied.
C7_AllRequirements ==
    eligible # <<>> =>
        \A e \in SeqRange(entries) :
            (~AlwaysOn(e) /\ ~DisabledByConfig(e)) =>
                (Included(e) <=> (BinsMet(e) /\ EnvMet(e) /\ ConfigMet(e)))

\* a skill with requirements in all three lists was included, by rule 3
C7_Witness ==
    /\ eligible # <<>>
    /\ \E e \in SeqRange(entries) :
          /\ ~AlwaysOn(e) /\ ~DisabledByConfig(e)
          /\ RequiredBins(e) # <<>> /\ RequiredEnv(e) # <<>> /\ RequiredConfig(e) # <<>>
          /\ Included(e)

\* the override the per-skill configuration gives variable n, <<>> if none
OverrideOf(e, n) ==
    IF SkillConfigOf(e) = <<>> THEN <<>> ELSE EnvOverride(SkillConfigOf(e)[1], n)
ApiKeyOf(e) == IF SkillConfigOf(e) = <<>> THEN <<>> ELSE SkillConfigOf(e)[1].apiKey

\* C8 as stated: the requirement for E holds iff E is set in the process
\* (also to the empty string), or the configuration has an override for E, or
\* E is the primaryEnv and the configuration has an apiKey.
C8_EnvRequirementWhenSet ==
    eligible # <<>> =>
        \A e \in SeqRange(entries) :
            (~AlwaysOn(e) /\ ~DisabledByConfig(e) /\ BinsMet(e) /\ ConfigMet(e)) =>
                (Included(e) <=>
                    \A n \in SeqRange(RequiredEnv(e)) :
                        \/ env[n] # <<>>
                        \/ OverrideOf(e, n) # <<>>
                        \/ ApiKeyOf(e) # <<>> /\ PrimaryEnvOf(e) = Some(n))

\* C8 (amended): the requirement for E holds iff E has a non-empty value in
\* the process, or the configuration has a non-empty override for E, or E is
\* the primaryEnv and the configuration has a non-empty apiKey; a variable
\* set to the empty string counts as not set.
C8_EnvRequirementWhenNonEmpty ==
    eligible # <<>> =>
        \A e \in SeqRange(entries) :
            (~AlwaysOn(e) /\ ~DisabledByConfig(e) /\ BinsMet(e) /\ ConfigMet(e)) =>
                (Included(e) <=>
                    \A n \in SeqRange(RequiredEnv(e)) :
                        \/ env[n] # <<>> /\ env[n][1] # ""
                        \/ OverrideOf(e, n) # <<>> /\ OverrideOf(e, n)[1] # ""
                        \/ /\ ApiKeyOf(e) # <<>> /\ ApiKeyOf(e)[1] # ""
                           /\ PrimaryEnvOf(e) = Some(n))

\* a skill requiring E2 and E1 was included with E1 empty in the process and
\* met by the apiKey, and one requiring a variable nothing provides was not
C8_Witness ==
    /\ eligible # <<>>
    /\ \E e \in SeqRange(entries) :
          /\ ~AlwaysOn(e) /\ ~DisabledByConfig(e)
          /\ RequiredEnv(e) = <<"E2", "E1">>
          /\ env["E1"] = Some("") /\ OverrideOf(e, "E1") = Some("")
          /\ PrimaryEnvOf(e) = Some("E1")
          /\ Included(e)

\* ------------------------------------------------------------------ install dispatcher: inputs

MaxInstall == 2

RawSpec(kind, id, formula, package, module) ==
    [kind |-> kind, id |-> id, formula |-> formula, package |-> package,
     module |-> module]

\* the field the installer kind needs
NeededField(kind) ==
    IF kind = "brew" THEN "formula"
    ELSE IF kind = "go" THEN "module"
    ELSE IF kind \in {"node", "uv"} THEN "package"
    ELSE "none"

\* a raw spec with all three fields, with the needed one absent (v = <<>>) or
\* with the needed one empty (v = <<"">>)
RawSpecWith(kind, id, payload) ==
    LET val(field, full) ==
            IF payload = "full" \/ NeededField(kind) # field THEN Some(full)
            ELSE IF payload = "absent" THEN <<>> ELSE Some("")
    IN  RawSpec(kind, id, val("formula", "f"), val("package", "p"), val("module", "m"))

\* the skill file of skill a whose metadata carries the raw install list
InstallFile(installRaw) ==
    SkillFile("a", [text |-> "{...}",
                    json |-> JsonObject(Some(ClawdisRaw(<<>>, <<>>, <<>>, NoRequires,
                                                        installRaw)))])

\* the workspace directory holds skill a, whose file is content
WorkspaceWithSkillA(content) ==
    /\ loaded = [d \in Dirs |->
                    [shape |-> "list",
                     skills |-> IF d = WorkspaceDir
                                THEN <<SkillRecord(WorkspaceDir, "a", "clawdis-workspace")>>
                                ELSE <<>>]]
    /\ extraDirs = <<>>
    /\ bundledDir = <<>>
    /\ files = [p \in FilePaths |-> IF p = <<WorkspaceDir, "a">> THEN content ELSE <<>>]
    /\ skillEntries = <<>>
    /\ mpc = "idle"

InstallRequest(skillName, installId, timeoutMs, cfg) ==
    [workspaceDir |-> WorkspaceDir, skillName |-> skillName, installId |-> installId,
     timeoutMs |-> timeoutMs, config |-> cfg]

InstallNotStarted ==
    /\ installEntries = <<>>
    /\ ipc = "idle"
    /\ spec = <<>>
    /\ specIndex = -1
    /\ command = <<>>
    /\ calls = <<>>
    /\ brewResult = <<>>
    /\ runResult = <<>>
    /\ result = <<>>

ExplicitIds ==
    {<<>>, Some(<<"x">>), Some(<<"uv", "-", "1">>), Some(<<WS, "uv", "-", "1", WS>>)}

\* install lists of up to MaxInstall specs, with and without explicit ids,
\* one of which can equal the computed id of an id-less uv spec at index 1
IdLists ==
    LET raws == {RawSpecWith(k, id, "full") : k \in {"brew", "uv", "apt"}, id \in ExplicitIds}
    IN  UNION {[1..n -> raws] : n \in 0..MaxInstall}

\* lookups by id: the lists vary, the rest of the request is fixed
InitFind ==
    /\ \E l \in IdLists : WorkspaceWithSkillA(Some(InstallFile(l)))
    /\ \E id \in {KindIndexId(k, i) : k \in {"brew", "uv"}, i \in 0..(MaxInstall - 1)}
                \cup {<<"x">>} :
          request = InstallRequest("a", id, <<>>, <<>>)
    /\ bins = <<{"brew"}>>
    /\ EnvIdleButPath
    /\ BestBoxIdle
    /\ InstallNotStarted

TimeoutChoices ==
    {<<>>, Some(-5), Some(0), Some(999), Some(1000), Some(5000), Some(900000),
     Some(900001)}

NodeManagerChoices ==
    {<<>>, Some([nodeManager |-> <<>>]), Some([nodeManager |-> Some(<<"pnpm">>)]),
     Some([nodeManager |-> Some(<<WS, "YARN">>)]), Some([nodeManager |-> Some(<<"bun">>)])}

PathChoices == {<<>>, <<{"git"}>>, <<{"brew"}>>, <<{"uv"}>>, <<{"brew"}, {"uv"}>>}

\* one spec of every kind and payload: the request, the PATH and the
\* runner's answers vary
InitCommand ==
    /\ \E content \in {<<>>, Some(InstallFile(<<>>))}
                      \cup {Some(InstallFile(<<RawSpecWith(k, <<>>, pl)>>)) :
                                k \in InstallKinds \cup {"apt"},
                                pl \in {"full", "absent", "blank"}} :
          WorkspaceWithSkillA(content)
    /\ \E name \in {"a", "zz"}, id \in {KindIndexId(k, 0) : k \in InstallKinds},
          t \in TimeoutChoices, cfg \in NodeManagerChoices :
          request = InstallRequest(name, id, t, cfg)
    /\ bins \in PathChoices
    /\ EnvIdleButPath
    /\ BestBoxIdle
    /\ InstallNotStarted

\* skill a lives in exactly one source directory; extraDirs is the
\* skillsLoad.extraDirs of the configuration the request carries
InitSources ==
    /\ \E holder \in Dirs :
          /\ loaded = [d \in Dirs |->
                          [shape |-> "list",
                           skills |-> IF d = holder
                                      THEN <<SkillRecord(d, "a", SourceTag(d))>>
                                      ELSE <<>>]]
          /\ files = [p \in FilePaths |->
                         IF p = <<holder, "a">>
                         THEN Some(InstallFile(<<RawSpecWith("uv", <<>>, "full")>>))
                         ELSE <<>>]
    /\ extraDirs \in {<<>>, <<"x1", "x2">>}
    /\ bundledDir \in {<<>>, Some(BundledDir)}
    /\ skillEntries = <<>>
    /\ mpc = "idle"
    /\ \E name \in SkillNames :
          request = InstallRequest(name, KindIndexId("uv", 0), <<>>,
                                   Some([nodeManager |-> <<>>]))
    /\ bins \in {<<{"brew"}>>, <<{"brew"}, {"uv"}>>}
    /\ EnvIdleButPath
    /\ BestBoxIdle
    /\ InstallNotStarted

InitInstall == InitFind \/ InitCommand \/ InitSources

SpecInstall == InitInstall /\ [][NextInstall]_vars

\* ---- C9

\* the entry installSkill found for the request
FoundEntry == installEntries[FindEntry(installEntries, request.skillName)]

HasEntry == ipc # "idle" /\ FindEntry(installEntries, request.skillName) # 0

\* the 0-based positions before i whose explicit id, trimmed, is id
EarlierExplicit(specs, i, id) ==
    {j \in 0..(i - 1) : specs[j + 1].id # <<>> /\ Trim(specs[j + 1].id[1]) = id}

\* C9 as stated: the effective id of an id-less spec at index i is
\* "<kind>-<i>", and the lookup of that id returns that spec, whatever the
\* explicit ids of the other specs.
C9_LookupReturnsSameSpec ==
    HasEntry =>
        LET specs == InstallSpecs(FoundEntry)
        IN  \A i \in 0..(Len(specs) - 1) :
                (specs[i + 1].id = <<>>
                 /\ request.installId = <<specs[i + 1].kind, "-", ToString(i)>>) =>
                    specIndex = i /\ spec = Some(specs[i + 1])

\* C9 (amended): the effective id of an id-less spec at index i is
\* "<kind>-<i>", and the lookup of that id returns the first spec of the list
\* with that effective id: that spec, unless an earlier spec has an explicit
\* id that trims to the same string, and then the first such spec.
C9_LookupReturnsFirstMatch ==
    HasEntry =>
        LET specs == InstallSpecs(FoundEntry)
        IN  \A i \in 0..(Len(specs) - 1) :
                (specs[i + 1].id = <<>>
                 /\ request.installId = <<specs[i + 1].kind, "-", ToString(i)>>) =>
                    LET earlier == EarlierExplicit(specs, i, request.installId)
                    IN  IF earlier = {}
                        THEN specIndex = i /\ spec = Some(specs[i + 1])
                        ELSE /\ specIndex \in earlier
                             /\ \A j \in earlier : specIndex <= j
                             /\ spec = Some(specs[specIndex + 1])

\* an id-less spec at index 1 was found by its computed id, past a spec with
\* another explicit id
C9_Witness ==
    /\ HasEntry
    /\ LET specs == InstallSpecs(FoundEntry)
       IN  /\ Len(specs) = 2
           /\ specs[1].id # <<>>
           /\ specs[2].id = <<>>
           /\ request.installId = <<specs[2].kind, "-", "1">>
           /\ specIndex = 1

\* ---- C10

\* the spec found is a uv spec, uv is not on the PATH and brew is
UvBootstrapCase ==
    /\ spec # <<>> /\ spec[1].kind = "uv"
    /\ ~(\E i \in DOMAIN bins : "uv" \in bins[i])
    /\ \E i \in DOMAIN bins : "brew" \in bins[i]

UvBootstrapOutcome ==
    /\ Len(calls) >= 1 /\ calls[1].argv = <<"brew", "install", "uv">>
    /\ ipc = "brew" => Len(calls) = 1
    /\ (brewResult # <<>> /\ brewResult[1].code = Some(0)) =>
            /\ Len(calls) = 2
            /\ calls[2].argv = <<"uv", "tool", "install", spec[1].package[1]>>
    /\ (brewResult # <<>> /\ brewResult[1].code # Some(0)) =>
            /\ Len(calls) = 1
            /\ ipc = "done"
            /\ result # <<>>
            /\ result[1].ok = FALSE
            /\ result[1].stdout = Trim(brewResult[1].stdout)
            /\ result[1].stderr = Trim(brewResult[1].stderr)
            /\ result[1].code = brewResult[1].code

\* C10 as stated: for a uv spec with uv absent and brew present installSkill
\* first runs `brew install uv`; on exit code 0 it then runs `uv tool install
\* <package>`, on a nonzero or null code it returns a failure with the
\* sub-install's output and code and never invokes uv.
C10_UvBootstrap == UvBootstrapCase => UvBootstrapOutcome

\* C10 (amended): the same, for a uv spec that has a non-empty package, so
\* that command synthesis succeeds; without one installSkill returns
\* "missing uv package" and runs nothing.
C10_UvBootstrapWithPackage ==
    (UvBootstrapCase /\ spec[1].package # <<>> /\ spec[1].package[1] # "") =>
        UvBootstrapOutcome

\* the bootstrap succeeded and the uv command ran after it
C10_Witness ==
    /\ UvBootstrapCase
    /\ ipc = "done"
    /\ brewResult # <<>> /\ brewResult[1].code = Some(0)
    /\ Len(calls) = 2 /\ calls[1].argv[1] = "brew" /\ calls[2].argv[1] = "uv"

\* ---- C11

\* the spec lacks the field its kind needs (absent or the empty string), or
\* its kind is none of brew, node, go, uv
SynthesisError(s) ==
    \/ s.kind = "brew" /\ (s.formula = <<>> \/ s.formula = <<"">>)
    \/ s.kind \in {"node", "uv"} /\ (s.package = <<>> \/ s.package = <<"">>)
    \/ s.kind = "go" /\ (s.module = <<>> \/ s.module = <<"">>)
    \/ s.kind \notin {"brew", "node", "go", "uv"}

UvAbsent == \A i \in DOMAIN bins : "uv" \notin bins[i]
BrewPresent == \E i \in DOMAIN bins : "brew" \in bins[i]

\* C11: when the spec found has a synthesis error, installSkill has returned
\* a failure with code null and the process runner was invoked zero times:
\* neither the bootstrap `brew install uv` nor any other command ran.
C11_SynthesisErrorRunsNothing ==
    (spec # <<>> /\ SynthesisError(spec[1])) =>
        /\ ipc = "done"
        /\ result # <<>>
        /\ result[1].ok = FALSE
        /\ result[1].code = <<>>
        /\ calls = <<>>
        /\ brewResult = <<>>
        /\ runResult = <<>>

\* a uv spec without package, uv absent and brew present: installSkill
\* returned without bootstrapping
C11_Witness ==
    /\ spec # <<>>
    /\ spec[1].kind = "uv"
    /\ SynthesisError(spec[1])
    /\ UvAbsent /\ BrewPresent
    /\ ipc = "done"
    /\ result # <<>> /\ result[1].message = <<"missing uv package">>
    /\ calls = <<>>

\* ---- C12

\* the names of the entries loadWorkspaceSkillEntries returned to installSkill
LoadedNames == {installEntries[i].skill.name : i \in DOMAIN installEntries}

\* C12: when the requested skill name is not among the loaded entries,
\* installSkill returns ok = false, message "Skill not found: <name>", empty
\* stdout and stderr and code null, and the process runner is never invoked.
C12_SkillNotFound ==
    (ipc # "idle" /\ request.skillName \notin LoadedNames) =>
        /\ ipc = "done"
        /\ result = Some([ok |-> FALSE,
                          message |-> <<"Skill not found: ", request.skillName>>,
                          stdout |-> <<>>, stderr |-> <<>>, code |-> <<>>])
        /\ calls = <<>>
        /\ brewResult = <<>>
        /\ runResult = <<>>

\* a request for a skill that is not loaded, while another skill is, has returned
C12_Witness ==
    /\ ipc = "done"
    /\ installEntries # <<>>
    /\ request.skillName = "zz"
    /\ "zz" \notin LoadedNames
    /\ result # <<>> /\ result[1].message = <<"Skill not found: ", "zz">>

\* ---- C13

\* the loaded entry of the requested name (names are unique after the merge)
RequestedEntry ==
    CHOOSE e \in SeqRange(installEntries) : e.skill.name = request.skillName

\* the install list of an entry, empty when the metadata has none
InstallListOf(e) ==
    IF e.clawdis = <<>> \/ e.clawdis[1].install = <<>> THEN <<>>
    ELSE e.clawdis[1].install[1]

\* the effective id of the spec at 0-based index i: its explicit id trimmed,
\* "<kind>-<i>" when it has none
EffectiveId(specs, i) ==
    IF specs[i + 1].id # <<>> THEN Trim(specs[i + 1].id[1])
    ELSE <<specs[i + 1].kind, "-", ToString(i)>>

NoSpecHasRequestedId ==
    LET specs == InstallListOf(RequestedEntry)
    IN  \A i \in 0..(Len(specs) - 1) : EffectiveId(specs, i) # request.installId

\* C13: when the skill is loaded but none of its install specs (it may have
\* none at all) has an effective id equal to the requested installId,
\* installSkill returns ok = false, message "Installer not found: <id>" and
\* code null, and the process runner is never invoked.
C13_InstallerNotFound ==
    (ipc # "idle" /\ request.skillName \in LoadedNames /\ NoSpecHasRequestedId) =>
        /\ ipc = "done"
        /\ result = Some([ok |-> FALSE,
                          message |-> <<"Installer not found: ", request.installId>>,
                          stdout |-> <<>>, stderr |-> <<>>, code |-> <<>>])
        /\ calls = <<>>
        /\ brewResult = <<>>
        /\ runResult = <<>>

\* the skill has install specs, none with the requested id, and installSkill
\* has returned
C13_Witness ==
    /\ ipc = "done"
    /\ request.skillName \in LoadedNames
    /\ InstallListOf(RequestedEntry) # <<>>
    /\ NoSpecHasRequestedId
    /\ result # <<>> /\ result[1].message[1] = "Installer not found: "

\* ---- C14

\* the names in the Source Merger's result for the request's workspace and
\* the configuration's extra directories
MergedNames ==
    LET merged == loadSkillEntries(request.workspaceDir, extraDirs, bundledDir)
    IN  {merged[i].skill.name : i \in DOMAIN merged}

SkillNotFoundReturned ==
    result # <<>> /\ result[1].message[1] = "Skill not found: "

\* C14: for every skill name in the Source Merger's result for the request's
\* workspace and configuration, a skill defined only in a configured extra
\* directory included, installSkill does not return "Skill not found".
C14_DispatcherSeesMergedSet ==
    (ipc # "idle" /\ request.skillName \in MergedNames) => ~SkillNotFoundReturned

\* ---- C15

\* the synthesized command was handed to the runner and the runner answered
MainCommandRan ==
    /\ runResult # <<>>
    /\ command # <<>> /\ command[1].argv # <<>>
    /\ calls # <<>> /\ calls[Len(calls)].argv = command[1].argv[1]

\* C15: the result has ok = true iff the synthesized command was executed
\* and the runner returned code 0; ok = true goes with message "Installed",
\* any other code of the synthesized command (nonzero or null) with ok =
\* false and message "Install failed", and the code of the result is the
\* code the runner returned.
C15_OkIffExitZero ==
    ipc = "done" =>
        /\ result # <<>>
        /\ result[1].ok <=> (MainCommandRan /\ runResult[1].code = Some(0))
        /\ result[1].ok => result[1].message = <<"Installed">>
        /\ runResult # <<>> =>
              /\ MainCommandRan
              /\ result[1].code = runResult[1].code
              /\ runResult[1].code # Some(0) =>
                    /\ result[1].ok = FALSE
                    /\ result[1].message = <<"Install failed">>

\* the synthesized command ended with a null code and installSkill reported
\* the failure
C15_Witness ==
    /\ ipc = "done"
    /\ MainCommandRan
    /\ runResult[1].code = <<>>
    /\ result # <<>> /\ result[1].ok = FALSE /\ result[1].code = <<>>

\* ---- C16

BootstrapFailed == brewResult # <<>> /\ brewResult[1].code # Some(0)

\* C16: one installSkill call invokes the process runner at most twice: at
\* most once for `brew install uv`, and then only as the first invocation,
\* and at most once for the synthesized command, which is the last one;
\* after the bootstrap returned a nonzero or null code nothing else is
\* invoked, and once the synthesized command has returned, whatever its
\* code, the call is over with no further invocation.
C16_NoRetries ==
    /\ Len(calls) <= 2
    /\ Len(calls) = 2 =>
          /\ calls[1].argv = <<"brew", "install", "uv">>
          /\ brewResult # <<>> /\ brewResult[1].code = Some(0)
          /\ command # <<>> /\ calls[2].argv = command[1].argv[1]
    /\ brewResult # <<>> => calls[1].argv = <<"brew", "install", "uv">>
    /\ BootstrapFailed => (Len(calls) = 1 /\ ipc = "done" /\ runResult = <<>>)
    /\ runResult # <<>> =>
          /\ ipc = "done"
          /\ Len(calls) = (IF brewResult # <<>> THEN 2 ELSE 1)

\* the synthesized command failed after a successful bootstrap and was not
\* run again
C16_Witness ==
    /\ ipc = "done"
    /\ Len(calls) = 2
    /\ runResult # <<>> /\ runResult[1].code # Some(0)
    /\ result # <<>> /\ result[1].message = <<"Install failed">>

\* ---- C17

\* the spec found is a uv spec and neither uv nor brew is on the PATH
UvAndBrewAbsentCase ==
    /\ spec # <<>> /\ spec[1].kind = "uv"
    /\ UvAbsent
    /\ ~BrewPresent

UvNotInstalledOutcome ==
    /\ ipc = "done"
    /\ result = Some([ok |-> FALSE,
                      message |-> <<"uv not installed (install via brew)">>,
                      stdout |-> <<>>, stderr |-> <<>>, code |-> <<>>])
    /\ calls = <<>>
    /\ brewResult = <<>>
    /\ runResult = <<>>

\* C17 as stated: for a uv spec with neither uv nor brew on the PATH,
\* installSkill fails with message "uv not installed (install via brew)" and
\* code null, and the process runner is invoked zero times.
C17_UvNotInstalled == UvAndBrewAbsentCase => UvNotInstalledOutcome

\* C17 (amended): the same, for a uv spec that has a non-empty package, so
\* that command synthesis succeeds; without one installSkill returns
\* "missing uv package" instead, also with no invocation.
C17_UvNotInstalledWithPackage ==
    (UvAndBrewAbsentCase /\ spec[1].package # <<>> /\ spec[1].package # <<"">>) =>
        UvNotInstalledOutcome

\* a uv spec with a package, a PATH that holds other programs only:
\* installSkill returned the failure and ran nothing
C17_Witness ==
    /\ UvAndBrewAbsentCase
    /\ spec[1].package = <<"p">>
    /\ bins = <<{"git"}>>
    /\ ipc = "done"
    /\ result # <<>> /\ result[1].message = <<"uv not installed (install via brew)">>
    /\ calls = <<>>

\* ---- C18

\* the node manager the request's configuration resolves to: the configured
\* name, trimmed and in lower case, when it is pnpm, yarn or npm, else npm
ResolvedManager ==
    LET raw == IF request.config = <<>> \/ request.config[1].nodeManager = <<>>
               THEN <<>>
               ELSE Trim(request.config[1].nodeManager[1])
    IN  IF raw \in {<<"pnpm">>, <<"PNPM">>} THEN "pnpm"
        ELSE IF raw \in {<<"yarn">>, <<"YARN">>} THEN "yarn"
        ELSE "npm"

ExpectedArgv(s) ==
    IF s.kind = "brew" THEN <<"brew", "install", s.formula[1]>>
    ELSE IF s.kind = "go" THEN <<"go", "install", s.module[1]>>
    ELSE IF s.kind = "uv" THEN <<"uv", "tool", "install", s.package[1]>>
    ELSE IF ResolvedManager = "pnpm" THEN <<"pnpm", "add", "-g", s.package[1]>>
    ELSE IF ResolvedManager = "yarn" THEN <<"yarn", "global", "add", s.package[1]>>
    ELSE <<"npm", "install", "-g", s.package[1]>>

\* C18: the command synthesized for the spec found is an error without argv
\* when the spec lacks the field its kind needs, and otherwise exactly the
\* argv of its kind: brew install <formula>, go install <module>, uv tool
\* install <package>, and for node npm install -g, pnpm add -g or yarn
\* global add <package> by the resolved node manager (npm when the
\* configured value is missing or unrecognized).
C18_CommandSynthesis ==
    command # <<>> =>
        /\ spec # <<>>
        /\ IF SynthesisError(spec[1])
           THEN command[1].argv = <<>> /\ command[1].error # <<>>
           ELSE command[1].error = <<>> /\ command[1].argv = Some(ExpectedArgv(spec[1]))

\* a node spec under a configuration that names " YARN"
C18_Witness ==
    /\ command # <<>>
    /\ spec # <<>> /\ spec[1].kind = "node"
    /\ request.config = Some([nodeManager |-> Some(<<WS, "YARN">>)])
    /\ command[1].argv = Some(<<"yarn", "global", "add", "p">>)

\* ---- C19

RequestedTimeout ==
    IF request.timeoutMs = <<>> THEN 300000 ELSE request.timeoutMs[1]

\* C19: every invocation of the process runner, the bootstrap and the
\* synthesized command alike, is given the requested timeout (300000 when
\* the request has none) raised to 1000 when below and lowered to 900000
\* when above, hence a timeout within [1000, 900000].
C19_TimeoutClamped ==
    \A i \in DOMAIN calls :
        /\ calls[i].timeoutMs =
              (IF RequestedTimeout < 1000 THEN 1000
               ELSE IF RequestedTimeout > 900000 THEN 900000
               ELSE RequestedTimeout)
        /\ calls[i].timeoutMs >= 1000
        /\ calls[i].timeoutMs <= 900000

\* a request with timeout 0 made both invocations with 1000
C19_Witness ==
    /\ request.timeoutMs = Some(0)
    /\ Len(calls) = 2
    /\ calls[1].timeoutMs = 1000
    /\ calls[2].timeoutMs = 1000

\* ------------------------------------------------------------------ configuration paths: inputs

\* the values a key of the configuration can hold; <<>> is a key that is absent
LeafValues ==
    {<<>>, Some(JsNull), Some(JsBool(TRUE)), Some(JsBool(FALSE)), Some(JsNumber(0)),
     Some(JsNumber(7)), Some(JsString(<<>>)), Some(JsString(<<WS>>)),
     Some(JsString(<<"x", WS>>)), Some(JsObject(EmptyTree)), Some(JsArray(<<>>)),
     Some(JsArray(<<JsBool(FALSE)>>))}

\* the object {key: value}, {} when the value is absent
ObjectWith(key, value) ==
    [k \in (IF value = <<>> THEN {} ELSE {key}) |-> value[1]]

\* {browser: v}, {browser: {enabled: v}}, {feature: v}, {feature: {on: v}}
ConfigTrees ==
    {ObjectWith("browser", v) : v \in LeafValues}
    \cup {ObjectWith("browser", Some(JsObject(ObjectWith("enabled", v)))) : v \in LeafValues}
    \cup {ObjectWith("feature", v) : v \in LeafValues}
    \cup {ObjectWith("feature", Some(JsObject(ObjectWith("on", v)))) : v \in LeafValues}

\* "browser.enabled", "browser..enabled", "feature.on", "feature",
\* "feature.length", "feature.0" and "."
ConfigPaths ==
    {BrowserEnabledPath, <<"browser", "", "enabled">>, <<"feature", "on">>,
     <<"feature">>, <<"feature", "length">>, <<"feature", "0">>, <<"", "">>}

\* one skill whose only requirement is one configuration path
InitConfigPath ==
    /\ \E pathStr \in ConfigPaths :
          entries = <<Entry("a", Some(Meta(<<>>, <<>>, <<>>,
                                           Some(Requires(<<>>, <<>>, <<pathStr>>)))))>>
    /\ config \in {<<>>} \cup {Some([skills |-> <<>>, tree |-> t]) : t \in ConfigTrees}
    /\ env = [n \in EnvNames |-> <<>>]
    /\ env0 = env
    /\ bins = <<>>
    /\ scopes = [s \in {1} |-> NoScope]
    /\ eligible = <<>>
    /\ snapshot = <<>>
    /\ MergeIdle
    /\ InstallIdle
    /\ BestBoxIdle

SpecConfigPath == InitConfigPath /\ [][NextFilter]_vars

\* ---- C20

\* the value of the configuration, undefined when there is none
ConfigRoot == IF config = <<>> THEN Undefined ELSE JsObject(config[1].tree)

\* the member of an object or array under a key, undefined when it has none
Member(value, key) ==
    IF value.ty = "object"
    THEN IF key \in DOMAIN value.obj THEN value.obj[key] ELSE Undefined
    ELSE IF key = "length" THEN JsNumber(Len(value.items))
    ELSE IF key = "0" /\ Len(value.items) >= 1 THEN value.items[1]
    ELSE Undefined

\* the path resolved from a value: undefined as soon as a value that has to
\* be entered is neither an object nor an array
RECURSIVE ResolvedFrom(_, _)
ResolvedFrom(value, keys) ==
    IF keys = <<>> THEN value
    ELSE IF value.ty \notin {"object", "array"} THEN Undefined
    ELSE ResolvedFrom(Member(value, Head(keys)), Tail(keys))

\* the keys of a dotted path: its parts, the empty ones dropped
KeysOf(pathStr) == SelectSeq(pathStr, LAMBDA part : part # "")

Truthy(value) ==
    CASE value.ty \in {"undefined", "null"} -> FALSE
      [] value.ty = "boolean" -> value.b
      [] value.ty = "number" -> value.n # 0
      [] value.ty = "string" -> \E i \in DOMAIN value.s : value.s[i] # WS
      [] OTHER -> TRUE

RequirementHolds(pathStr) ==
    LET value == ResolvedFrom(ConfigRoot, KeysOf(pathStr))
    IN  IF value.ty = "undefined" /\ pathStr = <<"browser", "enabled">> THEN TRUE
        ELSE Truthy(value)

\* C20: a skill whose only requirement is a configuration path is included
\* iff the path, resolved through the configuration with undefined as soon
\* as an intermediate value is not an object (arrays are objects, null is
\* not), gives a truthy value, or gives undefined and the path is
\* "browser.enabled", whose default is true; a configured false for
\* "browser.enabled" is not replaced by the default.
C20_ConfigPathRequirement ==
    eligible # <<>> =>
        \A e \in SeqRange(entries) :
            Included(e) <=> \A i \in DOMAIN RequiredConfig(e) :
                                RequirementHolds(RequiredConfig(e)[i])

\* browser.enabled is configured as false and the skill that requires it
\* was filtered out
C20_Witness ==
    /\ eligible # <<>>
    /\ entries[1].clawdis[1].requires[1].config = <<BrowserEnabledPath>>
    /\ config # <<>>
    /\ "browser" \in DOMAIN config[1].tree
    /\ config[1].tree["browser"] = JsObject(ObjectWith("enabled", Some(JsBool(FALSE))))
    /\ eligible[1] = <<>>

\* ------------------------------------------------------------------ overlapping activation scopes: inputs

MaxScopes == 2

ScopeMetas ==
    {<<>>,
     Some(Meta(<<>>, Some("k"), Some("E1"), <<>>)),
     Some(Meta(<<>>, <<>>, Some("E2"), Some(Requires(<<>>, <<"E1">>, <<>>))))}

ScopeConfigs ==
    {<<>>} \cup
    {Config([k \in {"a", "k", "b"} |-> IF k = "a" THEN ca ELSE IF k = "k" THEN ck ELSE cb],
            EmptyTree) :
        ca \in Opt({CfgEnvV, CfgEmptyAndKey}),
        ck \in Opt({CfgKeyOnly}),
        cb \in Opt({CfgB})}

\* several call sites activate the same skills under the same configuration
InitScopes ==
    /\ \E m \in ScopeMetas : entries \in {<<Entry("a", m)>>, <<Entry("a", m), EntryB>>}
    /\ config \in ScopeConfigs
    /\ env \in [EnvNames -> EnvStates]
    /\ env0 = env
    /\ bins = <<>>
    /\ scopes = [s \in 1..MaxScopes |-> NoScope]
    /\ eligible = <<>>
    /\ snapshot = <<>>
    /\ MergeIdle
    /\ InstallIdle
    /\ BestBoxIdle

SpecScopes == InitScopes /\ [][NextEnv]_vars

\* ---- C21

\* a skill the activation of scope t went through has a non-empty value
\* configured for variable n (an env override, or the apiKey for its primaryEnv)
ScopeConfigures(t, n) ==
    \E i \in DOMAIN scopes[t].seen :
        LET c == resolveSkillConfig(config, scopes[t].seen[i].key)
        IN  /\ c # <<>>
            /\ \/ TruthyStr(EnvOverride(c[1], n))
               \/ scopes[t].seen[i].primaryEnv = Some(n) /\ TruthyStr(c[1].apiKey)

Recorded(s, n) == \E i \in DOMAIN scopes[s].updates : scopes[s].updates[i].key = n

PrevOf(s, n) ==
    scopes[s].updates[CHOOSE i \in DOMAIN scopes[s].updates :
                          scopes[s].updates[i].key = n].prev

\* C21: with two scopes active whose skills configure the same variable, the
\* second has recorded nothing for a variable the first had injected, and
\* the reversal of the first puts the variable back to what it was before
\* the first activation (removing it when it was unset) although the second
\* scope stays active.
C21_ReversalRemovesSharedVariable ==
    [][\A s, t \in DOMAIN scopes : \A n \in EnvNames :
          (/\ s # t
           /\ scopes[s].status = "active" /\ scopes'[s].status = "reverted"
           /\ scopes[t].status = "active"
           /\ Recorded(s, n)
           /\ ScopeConfigures(t, n) /\ ~Recorded(t, n))
          => (env'[n] = PrevOf(s, n) /\ scopes'[t].status = "active")]_vars

\* the first scope was reversed and the variable it had injected is gone,
\* while the second scope, whose skills configure it, is still active
C21_Witness ==
    \E s, t \in DOMAIN scopes : \E n \in EnvNames :
        /\ s # t
        /\ scopes[s].status = "reverted"
        /\ Recorded(s, n) /\ PrevOf(s, n) = <<>>
        /\ scopes[t].status = "active"
        /\ ScopeConfigures(t, n) /\ ~Recorded(t, n)
        /\ env0[n] = <<>>
        /\ env[n] = <<>>

\* ------------------------------------------------------------------ skill files that fail: inputs

GoodMetadata(dir) ==
    [text |-> "{...}",
     json |-> JsonObject(Some(ClawdisRaw(<<>>, Some(dir), <<>>, NoRequires, NoInstall)))]
\* a metadata value JSON.parse throws on, and one that parses to a number
BadJsonMetadata == [text |-> "{bad", json |-> [t |-> "bad", clawdis |-> <<>>]]
NumberMetadata == [text |-> "7", json |-> [t |-> "number", clawdis |-> <<>>]]

\* what reading the file at path p can give: nothing (the read throws), a
\* well-formed file, text without a block, a block that is never closed, a
\* block whose metadata is not JSON or is JSON but no object
FileKinds == {"unreadable", "good", "noblock", "unclosed", "badjson", "nonobject"}

FileOfKind(p, kind) ==
    IF kind = "unreadable" THEN <<>>
    ELSE IF kind = "good" THEN Some(SkillFile(p[2], GoodMetadata(p[1])))
    ELSE IF kind = "noblock"
    THEN Some(<<TextLine, KvLine("name", PlainValue(p[2])),
                KvLine(MetadataKey, GoodMetadata(p[1])), DashLine>>)
    ELSE IF kind = "unclosed"
    THEN Some(<<DashLine, KvLine("name", PlainValue(p[2])),
                KvLine(MetadataKey, GoodMetadata(p[1])), TextLine>>)
    ELSE IF kind = "badjson" THEN Some(SkillFile(p[2], BadJsonMetadata))
    ELSE Some(SkillFile(p[2], NumberMetadata))

\* skill a comes from the workspace (shadowing a managed copy or not), skill
\* b from the managed, the bundled or an extra directory; each file is of
\* any kind
InitFiles ==
    /\ \E holderB \in {ManagedDir, BundledDir, "x1"}, shadowed \in BOOLEAN :
          loaded = [d \in Dirs |->
                      [shape |-> "list",
                       skills |->
                           (IF d = WorkspaceDir \/ (d = ManagedDir /\ shadowed)
                            THEN <<SkillRecord(d, "a", SourceTag(d))>> ELSE <<>>)
                           \o (IF d = holderB
                               THEN <<SkillRecord(d, "b", SourceTag(d))>> ELSE <<>>)]]
    /\ extraDirs = <<"x1", "x2">>
    /\ bundledDir = Some(BundledDir)
    /\ \E ka \in FileKinds, kb \in FileKinds :
          files = [p \in FilePaths |->
                      FileOfKind(p, IF p[2] = "a" THEN ka ELSE kb)]
    /\ skillEntries = <<>>
    /\ mpc = "idle"
    /\ EnvIdle
    /\ InstallIdle
    /\ BestBoxIdle

SpecFiles == InitFiles /\ [][NextMerge]_vars

\* ---- C22

\* the names some source that is read returns
MergedSkillNames ==
    {n \in SkillNames :
        \E d \in Dirs : \E i \in DOMAIN loaded[d].skills : loaded[d].skills[i].name = n}

\* what the file of an entry looks like
FileOf(e) == files[e.skill.filePath]
Unreadable(e) == FileOf(e) = <<>>
BlockMalformed(e) ==
    /\ FileOf(e) # <<>>
    /\ \/ FileOf(e)[1][1].t # "dash"
       \/ \A i \in 2..Len(FileOf(e)[1]) : FileOf(e)[1][i].t # "dash"
MetadataMalformed(e) ==
    /\ FileOf(e) # <<>>
    /\ ~BlockMalformed(e)
    /\ \E i \in DOMAIN FileOf(e)[1] :
          /\ FileOf(e)[1][i].t = "kv"
          /\ FileOf(e)[1][i].key = "metadata"
          /\ FileOf(e)[1][i].value.json.t # "object"
WellFormed(e) == FileOf(e) # <<>> /\ ~BlockMalformed(e) /\ ~MetadataMalformed(e)

OneEntryPerMergedName ==
    /\ {skillEntries[i].skill.name : i \in DOMAIN skillEntries} = MergedSkillNames
    /\ Len(skillEntries) = Cardinality(MergedSkillNames)

\* a skill whose file is well-formed has its declaration and its metadata,
\* whatever the files of the other skills are
OthersUnaffected ==
    \A e \in SeqRange(skillEntries) :
        WellFormed(e) =>
            /\ DOMAIN e.frontmatter = {"name", "metadata"}
            /\ e.frontmatter["name"].text = e.skill.name
            /\ e.clawdis # <<>>
            /\ e.clawdis[1].skillKey = Some(e.skill.filePath[1])

\* C22 as stated: a skill whose file cannot be read, or has a malformed
\* frontmatter block or malformed metadata JSON, gets an empty declaration
\* and no capability metadata; there is one entry for every merged name and
\* the entries of the other skills are unaffected.
C22_FailureDegradesOneSkill ==
    mpc = "done" =>
        /\ OneEntryPerMergedName
        /\ OthersUnaffected
        /\ \A e \in SeqRange(skillEntries) :
              (Unreadable(e) \/ BlockMalformed(e) \/ MetadataMalformed(e)) =>
                  (e.frontmatter = EmptyFrontmatter /\ e.clawdis = <<>>)

\* C22 (amended): a skill whose file cannot be read or whose frontmatter
\* block is malformed gets an empty declaration and no capability metadata;
\* a skill whose block is well-formed but whose metadata is not the JSON of
\* an object keeps its declaration and gets no capability metadata; there is
\* one entry for every merged name and the entries of the other skills are
\* unaffected.
C22_FailureDegradesMetadata ==
    mpc = "done" =>
        /\ OneEntryPerMergedName
        /\ OthersUnaffected
        /\ \A e \in SeqRange(skillEntries) :
              /\ (Unreadable(e) \/ BlockMalformed(e)) =>
                    (e.frontmatter = EmptyFrontmatter /\ e.clawdis = <<>>)
              /\ MetadataMalformed(e) =>
                    /\ e.clawdis = <<>>
                    /\ DOMAIN e.frontmatter = {"name", "metadata"}

\* skill a could not be read and skill b, from another source, has its metadata
C22_Witness ==
    /\ mpc = "done"
    /\ Len(skillEntries) = 2
    /\ \E e, g \in SeqRange(skillEntries) :
          /\ e.skill.name = "a" /\ Unreadable(e) /\ e.clawdis = <<>>
          /\ g.skill.name = "b" /\ WellFormed(g) /\ g.clawdis # <<>>

\* ------------------------------------------------------------ bestbox tool
\* createBestBoxTool of the bestbox extension.  A string the tool searches is
\* a sequence of characters; a character outside ASCII is named by its code
\* point ("u6A21").

\* String.prototype.toLowerCase
toLowerCase(str) ==
    LET UpperChars == <<"A", "B", "C", "D", "E", "F", "G", "H", "I", "J", "K", "L", "M",
                        "N", "O", "P", "Q", "R", "S", "T", "U", "V", "W", "X", "Y", "Z">>
        LowerChars == <<"a", "b", "c", "d", "e", "f", "g", "h", "i", "j", "k", "l", "m",
                        "n", "o", "p", "q", "r", "s", "t", "u", "v", "w", "x", "y", "z">>
    IN  [i \in DOMAIN str |->
            IF \E k \in DOMAIN UpperChars : UpperChars[k] = str[i]
            THEN LowerChars[CHOOSE k \in DOMAIN UpperChars : UpperChars[k] = str[i]]
            ELSE str[i]]

\* String.prototype.includes
includes(str, sub) ==
    \E i \in 0..(Len(str) - Len(sub)) : SubSeq(str, i + 1, i + Len(sub)) = sub

\* Array.prototype.includes
arrayIncludes(arr, v) == \E i \in DOMAIN arr : arr[i] = v

\* a regular expression literal without metacharacters: /source/ or /source/i
RegExp(source, ignoreCase) == [source |-> source, ignoreCase |-> ignoreCase]

\* RegExp.prototype.test
test(pattern, str) ==
    IF pattern.ignoreCase
    THEN includes(toLowerCase(str), toLowerCase(pattern.source))
    ELSE includes(str, pattern.source)

MOLD_QUERY_PATTERNS ==
    [count |-> <<
        RegExp(<<"u6709", "u591A", "u5C11">>, FALSE),
        RegExp(<<"u7EDF", "u8BA1">>, FALSE),
        RegExp(<<"u591A", "u5C11", "u4E2A">>, FALSE),
        RegExp(<<"u6709", "u54EA", "u4E9B">>, FALSE),
        RegExp(<<"u5217", "u51FA", "u6240", "u6709">>, FALSE),
        RegExp(<<"u603B", "u5171">>, FALSE),
        RegExp(<<"u6570", "u91CF">>, FALSE),
        RegExp(<<"c", "o", "u", "n", "t">>, TRUE),
        RegExp(<<"h", "o", "w", " ", "m", "a", "n", "y">>, TRUE)>>,
     semantic |-> <<
        RegExp(<<"u600E", "u4E48">>, FALSE),
        RegExp(<<"u5982", "u4F55">>, FALSE),
        RegExp(<<"u539F", "u56E0">>, FALSE),
        RegExp(<<"u89E3", "u51B3">>, FALSE),
        RegExp(<<"u65B9", "u6848">>, FALSE),
        RegExp(<<"u4E3A", "u4EC0", "u4E48">>, FALSE),
        RegExp(<<"u5BFC", "u81F4">>, FALSE),
        RegExp(<<"h", "o", "w", " ", "t", "o">>, TRUE),
        RegExp(<<"w", "h", "y">>, TRUE),
        RegExp(<<"s", "o", "l", "u", "t", "i", "o", "n">>, TRUE)>>]

MOLD_KEYWORDS == <<
    <<"u62AB", "u950B">>,
    <<"u62C9", "u767D">>,
    <<"u706B", "u82B1", "u7EB9">>,
    <<"u6A21", "u5177">>,
    <<"u8868", "u9762", "u6C61", "u67D3">>,
    <<"u6BDB", "u8FB9">>,
    <<"u98DE", "u8FB9">>,
    <<"f", "l", "a", "s", "h">>,
    <<"m", "o", "l", "d">>,
    <<"d", "e", "f", "e", "c", "t">>,
    <<"T", "0">>,
    <<"T", "1">>,
    <<"T", "2">>,
    <<"t", "r", "i", "a", "l">>,
    <<"H", "I", "P", "S">>,
    <<"A", "B", "S">>,
    <<"P", "C">>,
    <<"P", "P">>,
    <<"u6750", "u6599">>,
    <<"u6CE8", "u5851">>,
    <<"u6210", "u578B">>>>

\* 'count' | 'semantic' | 'hybrid', <<>> for null
classifyMoldQuery(query) ==
    LET isMoldRelated ==
            \E k \in DOMAIN MOLD_KEYWORDS :
                includes(toLowerCase(query), toLowerCase(MOLD_KEYWORDS[k]))
        isCountQuery ==
            \E k \in DOMAIN MOLD_QUERY_PATTERNS.count :
                test(MOLD_QUERY_PATTERNS.count[k], query)
        isSemanticQuery ==
            \E k \in DOMAIN MOLD_QUERY_PATTERNS.semantic :
                test(MOLD_QUERY_PATTERNS.semantic[k], query)
    IN  IF ~isMoldRelated THEN <<>>
        ELSE IF isCountQuery /\ ~isSemanticQuery THEN Some("count")
        ELSE IF isSemanticQuery /\ ~isCountQuery THEN Some("semantic")
        ELSE IF isCountQuery /\ isSemanticQuery THEN Some("hybrid")
        ELSE Some("semantic")

isMoldQuery(query) ==
    \E k \in DOMAIN MOLD_KEYWORDS :
        includes(toLowerCase(query), toLowerCase(MOLD_KEYWORDS[k]))

\* ---- the configuration execute reads (cfg?.x ?? default)

DefaultApiUrl == "http://localhost:8000"
DefaultTimeout == 60000
DefaultDomains == <<"erp", "crm", "itops", "oa", "mold">>

BestBoxConfig(apiUrl, timeout, domains, enableStreaming) ==
    [apiUrl |-> apiUrl, timeout |-> timeout, domains |-> domains,
     enableStreaming |-> enableStreaming]

ApiUrlOf(cfg) ==
    IF cfg = <<>> \/ cfg[1].apiUrl = <<>> THEN DefaultApiUrl ELSE cfg[1].apiUrl[1]
TimeoutOf(cfg) ==
    IF cfg = <<>> \/ cfg[1].timeout = <<>> THEN DefaultTimeout ELSE cfg[1].timeout[1]
EnabledDomainsOf(cfg) ==
    IF cfg = <<>> \/ cfg[1].domains = <<>> THEN DefaultDomains ELSE cfg[1].domains[1]
EnableStreamingOf(cfg) ==
    IF cfg = <<>> \/ cfg[1].enableStreaming = <<>> THEN FALSE
    ELSE cfg[1].enableStreaming[1]

\* an optional string in a condition: undefined and "" are falsy
TruthyString(o) == o # <<>> /\ o[1] # ""

\* params.domain ?? (isMoldQuery(params.query) ? "mold" : undefined)
EffectiveDomainOf(p) ==
    IF p.domain # <<>> THEN p.domain
    ELSE IF isMoldQuery(p.query) THEN Some("mold") ELSE <<>>

\* effectiveDomain === "mold" ? classifyMoldQuery(params.query) : null
QueryTypeOf(p) ==
    IF EffectiveDomainOf(p) = Some("mold") THEN classifyMoldQuery(p.query) ELSE <<>>

\* ---- requests and results

\* the messages of the agent API request
MessagesOf(p) ==
    (IF TruthyString(p.context) THEN <<[role |-> "system", content |-> p.context[1]]>> ELSE <<>>)
        \o <<[role |-> "user", content |-> p.query]>>

\* a fetch call: the fields a request does not have are <<>>
DirectRequest(cfg, p) ==
    [url |-> ApiUrlOf(cfg), path |-> "/v1/troubleshooting/query", session |-> <<>>,
     query |-> Some(p.query), mode |-> Some("STRUCTURED"), messages |-> <<>>,
     model |-> <<>>, stream |-> <<>>, force_domain |-> <<>>, query_type |-> <<>>]

ChatRequest(cfg, p) ==
    [url |-> ApiUrlOf(cfg), path |-> "/v1/chat/completions",
     session |-> IF TruthyString(p.sessionId) THEN p.sessionId ELSE <<>>,
     query |-> <<>>, mode |-> <<>>, messages |-> MessagesOf(p),
     model |-> Some("bestbox-enterprise"), stream |-> Some(EnableStreamingOf(cfg)),
     force_domain |-> IF TruthyString(EffectiveDomainOf(p)) THEN EffectiveDomainOf(p)
                      ELSE <<>>,
     query_type |-> QueryTypeOf(p)]

\* the text of a result: its kind and what the text quotes
Text(kind) == [kind |-> kind, domain |-> "", available |-> <<>>, timeout |-> 0, apiUrl |-> ""]
NotEnabledText(domain, available) ==
    [Text("not_enabled") EXCEPT !.domain = domain, !.available = available]

Details(agent, query_type, streamed, images) ==
    [agent |-> agent, query_type |-> query_type, streamed |-> streamed, images |-> images]
NoDetails == Details(<<>>, <<>>, FALSE, 0)

textResult(text, details) == [type |-> "text", text |-> text, details |-> details]
mediaResult(text, imageUrls, details) == [type |-> "media", text |-> text, details |-> details]

\* what fetch and the response body can turn out to be
Response(fail, ok, eventStream, sse, json, agent, images) ==
    [fail |-> fail, ok |-> ok, eventStream |-> eventStream, sse |-> sse, json |-> json,
     agent |-> agent, images |-> images]

\* lines 357-440: the result of the agent API request
ChatResult(cfg, resp) ==
    IF resp.fail = "abort"
    THEN textResult([Text("timed_out") EXCEPT !.timeout = TimeoutOf(cfg),
                                            !.apiUrl = ApiUrlOf(cfg)], NoDetails)
    ELSE IF resp.fail = "error" THEN textResult(Text("connection_error"), NoDetails)
    ELSE IF ~resp.ok THEN textResult(Text("api_error"), NoDetails)
    ELSE IF EnableStreamingOf(cfg) /\ resp.eventStream
    THEN IF resp.sse # ""
         THEN textResult(Text("content"), Details(resp.agent, <<>>, TRUE, 0))
         ELSE textResult(Text("no_stream_content"), NoDetails)
    ELSE IF resp.json = "invalid" THEN textResult(Text("connection_error"), NoDetails)
    ELSE IF resp.json \in {"choices", "native"}
    THEN IF resp.images > 0
         THEN mediaResult(Text("content"), resp.images,
                          Details(resp.agent, <<>>, FALSE, resp.images))
         ELSE textResult(Text("content"), Details(resp.agent, <<>>, FALSE, 0))
    ELSE textResult(Text("empty_response"), NoDetails)

\* ---- execute, one action per stretch between two awaits

\* lines 211-378: validation, routing and the first request
ExecuteStart ==
    /\ bpc = "idle"
    /\ params # <<>>
    /\ LET p == params[1]
           cfg == pluginConfig
       IN  IF TruthyString(p.domain) /\ ~arrayIncludes(EnabledDomainsOf(cfg), p.domain[1])
           THEN /\ toolResult' = Some(textResult(
                       NotEnabledText(p.domain[1], EnabledDomainsOf(cfg)), NoDetails))
                /\ bpc' = "done"
                /\ UNCHANGED <<effectiveDomain, queryType, requests>>
           ELSE /\ effectiveDomain' = EffectiveDomainOf(p)
                /\ queryType' = QueryTypeOf(p)
                /\ IF EffectiveDomainOf(p) = Some("mold") /\ QueryTypeOf(p) = Some("count")
                   THEN /\ requests' = Append(requests, DirectRequest(cfg, p))
                        /\ bpc' = "direct"
                   ELSE /\ requests' = Append(requests, ChatRequest(cfg, p))
                        /\ bpc' = "chat"
                /\ UNCHANGED toolResult
    /\ UNCHANGED <<pluginConfig, params, mergeVars, envVars, installVars>>

\* lines 300-348: the direct endpoint answers; anything but an ok response
\* with a well-formed body falls through to the agent API
ExecuteDirectResponds ==
    /\ bpc = "direct"
    /\ \E outcome \in {"ok", "not_ok", "throws"} :
          IF outcome = "ok"
          THEN /\ toolResult' = Some(textResult(Text("found"),
                      Details(Some("direct_query"), Some("count"), FALSE, 0)))
               /\ bpc' = "done"
               /\ UNCHANGED requests
          ELSE /\ requests' = Append(requests, ChatRequest(pluginConfig, params[1]))
               /\ bpc' = "chat"
               /\ UNCHANGED toolResult
    /\ UNCHANGED <<pluginConfig, params, effectiveDomain, queryType, mergeVars, envVars,
                   installVars>>

ChatResponses ==
    {Response("abort", FALSE, FALSE, "", "invalid", <<>>, 0),
     Response("error", FALSE, FALSE, "", "invalid", <<>>, 0),
     Response("none", FALSE, FALSE, "", "invalid", <<>>, 0),
     Response("none", TRUE, TRUE, "text", "invalid", Some("erp_agent"), 0),
     Response("none", TRUE, TRUE, "", "invalid", <<>>, 0),
     Response("none", TRUE, FALSE, "", "choices", Some("erp_agent"), 0),
     Response("none", TRUE, FALSE, "", "choices", <<>>, 1),
     Response("none", TRUE, FALSE, "", "native", Some("mold_agent"), 0),
     Response("none", TRUE, FALSE, "", "empty", <<>>, 0)}

\* lines 380-440: the agent API answers
ExecuteChatResponds ==
    /\ bpc = "chat"
    /\ \E resp \in ChatResponses : toolResult' = Some(ChatResult(pluginConfig, resp))
    /\ bpc' = "done"
    /\ UNCHANGED <<pluginConfig, params, effectiveDomain, queryType, requests, mergeVars,
                   envVars, installVars>>

NextBestBox == ExecuteStart \/ ExecuteDirectResponds \/ ExecuteChatResponds

\* ---- inputs

Params(query, domain, context, sessionId, imageUrl) ==
    [query |-> query, domain |-> domain, context |-> context, sessionId |-> sessionId,
     imageUrl |-> imageUrl]

\* "invoices", "how many invoices", "mold", "mold why", "How many Flash",
\* "count why mold", a count question in Chinese about moulds, and
\* "upcoming", which holds the keyword PC in lower case
Queries == {
    <<"i", "n", "v", "o", "i", "c", "e", "s">>,
    <<"h", "o", "w", " ", "m", "a", "n", "y", " ", "i", "n", "v", "o", "i", "c", "e", "s">>,
    <<"m", "o", "l", "d">>,
    <<"m", "o", "l", "d", " ", "w", "h", "y">>,
    <<"H", "o", "w", " ", "m", "a", "n", "y", " ", "F", "l", "a", "s", "h">>,
    <<"c", "o", "u", "n", "t", " ", "w", "h", "y", " ", "m", "o", "l", "d">>,
    <<"u6A21", "u5177", "u6709", "u591A", "u5C11">>,
    <<"u", "p", "c", "o", "m", "i", "n", "g">>}

DomainChoices == {<<>>, Some(""), Some("erp"), Some("oa"), Some("mold"), Some("hr")}

DomainLists == {<<"erp">>, <<"erp", "mold">>, <<"crm", "itops", "oa">>, <<>>}

PluginConfigs ==
    {<<>>} \cup
    {Some(BestBoxConfig(u, t, d, st)) :
        u \in Opt({"http://bestbox:9000"}), t \in Opt({5000}),
        d \in Opt(DomainLists), st \in Opt({TRUE})}

InitBestBox ==
    /\ pluginConfig \in PluginConfigs
    /\ \E q \in Queries, d \in DomainChoices, c \in Opt({"ctx"}), sid \in Opt({"s1"}) :
          params = Some(Params(q, d, c, sid, <<>>))
    /\ bpc = "idle"
    /\ effectiveDomain = <<>>
    /\ queryType = <<>>
    /\ requests = <<>>
    /\ toolResult = <<>>
    /\ MergeIdle
    /\ EnvIdle
    /\ InstallIdle

SpecBestBox == InitBestBox /\ [][NextBestBox]_vars

\* ---- C23

DocumentedDomains == {"erp", "crm", "itops", "oa"}
DomainsUnset == pluginConfig = <<>> \/ pluginConfig[1].domains = <<>>
ExplicitDomain == params # <<>> /\ TruthyString(params[1].domain)

\* C23 as stated: when the plugin configuration does not set domains, a call
\* with an explicit domain outside {erp, crm, itops, oa} returns the "is not
\* enabled" text and sends no request, and a call with an explicit domain
\* inside it is forwarded with that domain.
C23_DefaultDomainsAreTheDocumentedFour ==
    (DomainsUnset /\ ExplicitDomain /\ bpc # "idle") =>
        IF params[1].domain[1] \in DocumentedDomains
        THEN /\ requests # <<>>
             /\ requests[1].force_domain = params[1].domain
        ELSE /\ requests = <<>>
             /\ toolResult # <<>>
             /\ toolResult[1].text.kind = "not_enabled"

\* ---- C24

\* the entry a scope went through under the given name
EntryNamed(n) == entries[CHOOSE i \in DOMAIN entries : entries[i].skill.name = n]

\* the filter included the entry by its requirements, not by always = true
IncludedByRequirements(e) == ~(e.clawdis # <<>> /\ e.clawdis[1].always = Some(TRUE))

\* every variable required by a skill of the activation that went through
\* seen is set to a non-empty value in penv
RequiredEnvSet(seen, penv) ==
    \A i \in DOMAIN seen :
        LET e == EntryNamed(seen[i].name)
        IN  IncludedByRequirements(e) =>
                \A k \in DOMAIN RequiredEnv(e) : TruthyStr(penv[RequiredEnv(e)[k]])

\* C24 as stated: between an entry-based activation of the eligible entries
\* and its reversal, every variable named in requires.env of a skill that
\* the filter included by its requirements is set to a non-empty value.
C24_EligibilityAndActivationAgree ==
    \A s \in DOMAIN scopes :
        (scopes[s].status = "active" /\ scopes[s].via = "entries") =>
            RequiredEnvSet(scopes[s].seen, env)

\* C24 (amended): the required variables of the included skills are set to a
\* non-empty value when the entry-based activation returns, and they stay
\* set until a reversal is called, its own or that of an activation that
\* overlaps it.
C24_AgreeUntilSomeReversal ==
    [][\A s \in DOMAIN scopes :
          (/\ scopes'[s].status = "active"
           /\ scopes'[s].via = "entries"
           /\ \/ scopes[s].status # "active"
              \/ /\ RequiredEnvSet(scopes[s].seen, env)
                 /\ \A t \in DOMAIN scopes :
                        ~(scopes[t].status = "active" /\ scopes'[t].status = "reverted"))
          => RequiredEnvSet(scopes'[s].seen, env')]_vars

\* an active entry-based activation went through a skill that requires a
\* variable the initial environment did not have, while another activation
\* is active too
C24_Witness ==
    \E s, t \in DOMAIN scopes :
        /\ s # t
        /\ scopes[s].status = "active" /\ scopes[s].via = "entries"
        /\ scopes[t].status = "active"
        /\ RequiredEnvSet(scopes[s].seen, env)
        /\ \E i \in DOMAIN scopes[s].seen :
              LET e == EntryNamed(scopes[s].seen[i].name)
              IN  /\ IncludedByRequirements(e)
                  /\ \E k \in DOMAIN RequiredEnv(e) : ~TruthyStr(env0[RequiredEnv(e)[k]])

\* ---- C25

\* C25: whatever the number, the kind and the order of the activations and
\* however their variables overlap, once every activation that was started
\* has had its reversal called (each exactly once) the process environment
\* equals the initial environment; and the update list of one activation
\* names each variable at most once.
C25_AllReversalsRestoreInitial ==
    /\ (\A s \in DOMAIN scopes : scopes[s].status # "active") => env = env0
    /\ \A s \in DOMAIN scopes :
          \A i, j \in DOMAIN scopes[s].updates :
              scopes[s].updates[i].key = scopes[s].updates[j].key => i = j

\* two activations, one entry-based and one snapshot-based, have both been
\* reverted; one recorded variable n, the other went through a skill
\* configured for n without recording it although n was not set initially
\* (it ran while the first was active); the environment is the initial one
C25_Witness ==
    /\ \A s \in DOMAIN scopes : scopes[s].status = "reverted"
    /\ env = env0
    /\ \E s, t \in DOMAIN scopes : \E n \in EnvNames :
          /\ s # t
          /\ scopes[s].via # scopes[t].via
          /\ Recorded(s, n)
          /\ ScopeConfigures(t, n)
          /\ ~Recorded(t, n)
          /\ ~TruthyStr(env0[n])

\* ---- C26

\* C26 as stated: every request execute sends that carries a force_domain
\* carries one of the enabled domains, whether the domain was given in the
\* call or detected from the mold keywords of the query, and the direct
\* /v1/troubleshooting/query endpoint is contacted only when "mold" is
\* enabled.
C26_RoutesOnlyToEnabledDomains ==
    \A i \in DOMAIN requests :
        /\ requests[i].force_domain # <<>> =>
              arrayIncludes(EnabledDomainsOf(pluginConfig), requests[i].force_domain[1])
        /\ requests[i].path = "/v1/troubleshooting/query" =>
              arrayIncludes(EnabledDomainsOf(pluginConfig), "mold")

====
